---------------------------- MODULE Spec2Model ----------------------------
(***************************************************************************)
(* A model of slider.beatmap.Beatmap: the stacking resolver and its cache, *)
(* the star caches, the accuracy-to-hit-count solve, performance_points    *)
(* and Slider.tick_points.                                                 *)
(*                                                                         *)
(* Units.  Floats of the source are modelled by exact integers:            *)
(*   positions      1/10000 osu! pixel   (a parsed x of 128 is 1280000)    *)
(*   times          microseconds, the resolution of datetime.timedelta     *)
(*   AR, CS         tenths               (CS 4 is 40, CS 4 with easy is 20)*)
(*   stack_leniency tenths                                                 *)
(*   accuracy       a fraction <<numerator, denominator>>                  *)
(*   beats          quarter beats        (num_beats, tick_rate)            *)
(***************************************************************************)
EXTENDS Integers, Sequences, FiniteSets, TLC

VARIABLES
    format_version,             \* Beatmap.format_version
    approach_rate,              \* Beatmap.approach_rate (base AR, whole number)
    circle_size,                \* Beatmap.circle_size   (base CS, whole number)
    _hit_objects,               \* Beatmap._hit_objects: the parsed objects, shared by reference
    _hit_objects_with_stacking, \* Beatmap._hit_objects_with_stacking: (ar, cs) -> list of objects
    parsed,                     \* the positions HitObject.parse gave the objects (never written again)
    resolver_runs,              \* how often the resolver ran for each stacking key
    _aim_stars_cache,           \* Beatmap._aim_stars_cache: mod key -> value
    _speed_stars_cache,         \* Beatmap._speed_stars_cache
    _stars_cache,               \* Beatmap._stars_cache
    _rhythm_awkwardness_cache,  \* Beatmap._rhythm_awkwardness_cache
    calculate_stars_calls,      \* the calls of _calculate_stars so far: [key, caller]
    ret,                        \* what the last call returned (or raised)
    curve_args,                 \* (kind, points, req_length) of a slider's curve as Slider._parse reads them
    curve,                      \* the Curve built from curve_args
    timing_points,              \* Beatmap.timing_points, in list order
    threads,                    \* the threads inside hit_objects: where each is, and its local names
    instance_vars               \* vars(ob) of every hit object: the values lazyval has stored, by name

vars == <<format_version, approach_rate, circle_size, _hit_objects,
          _hit_objects_with_stacking, parsed, resolver_runs, _aim_stars_cache,
          _speed_stars_cache, _stars_cache, _rhythm_awkwardness_cache,
          calculate_stars_calls, ret, curve_args, curve, timing_points,
          threads, instance_vars>>

\* The curve of a slider and what it was built from
curve_vars == <<curve_args, curve>>

\* The four star caches and the calls that filled them
star_vars == <<_aim_stars_cache, _speed_stars_cache, _stars_cache,
               _rhythm_awkwardness_cache, calculate_stars_calls>>

----------------------------------------------------------------------------
(* Bounds *)

MaxMapObjs == 2                 \* hit objects of a Beatmap in Spec

MaxRuns == 2                    \* resolver_runs stops counting here

MaxObjs == 3                    \* hit objects of a list in SpecResolver

MaxHitcountObjs == 3            \* hit objects of a Beatmap in SpecHitcounts

MaxPPObjs == 2                  \* hit objects of a Beatmap in SpecPP

MaxRepeat == 3                  \* repeat of a slider in SpecTicks

MaxBeats == 8                   \* num_beats of a slider in SpecTicks, in quarter beats

MaxBatch == 2                   \* entries of an array of accuracies or counts

----------------------------------------------------------------------------
(* Arithmetic helpers *)

Abs(n) == IF n < 0 THEN -n ELSE n

Min(a, b) == IF a < b THEN a ELSE b

Max(a, b) == IF a > b THEN a ELSE b

\* stack_dist = 3 pixels
\* d[key] = value on a dict
SetItem(d, key, value) ==
    [k \in DOMAIN d \cup {key} |-> IF k = key THEN value ELSE d[k]]

stack_dist == 30000

\* Beatmap.stack_leniency in tenths: 0.7, the value the game's editor writes
stack_leniency == 7

\* slider.position.distance(p, q) < d for the Euclidean distance, compared on
\* the squares; the per-axis guards keep the squares inside 32 bits and are
\* implied by the comparison itself.
DistanceBelow(p, q, d) ==
    LET dx == Abs(p[1] - q[1])
        dy == Abs(p[2] - q[2])
    IN  /\ dx < d
        /\ dy < d
        /\ dx * dx + dy * dy < d * d

\* distance(p, q) < stack_dist (beatmap.py 1572, 1580, 1590, 1614, 1673, 1682)
Near(p, q) == DistanceBelow(p, q, stack_dist)

\* slider.mod.ar_to_ms, in milliseconds, of an AR in tenths
ar_to_ms(ar) == IF ar >= 50 THEN 1950 - 15 * ar ELSE 1800 - 12 * ar

\* slider.mod.circle_radius(cs) / 10 in 1/10000 pixel, of a CS in tenths:
\* (512 / 16) * (1 - 0.7 * (cs - 5) / 5) / 10 = 5.44 - 0.448 * cs
stack_offset(cs) == 54400 - 448 * cs

\* Beatmap.ar(easy, hard_rock) without the half/double time part, which
\* hit_objects never passes
ar_of(easy, hard_rock) ==
    IF easy THEN 5 * approach_rate
    ELSE IF hard_rock THEN Min(14 * approach_rate, 100)
    ELSE 10 * approach_rate

\* Beatmap.cs(easy, hard_rock)
cs_of(easy, hard_rock) ==
    IF hard_rock THEN Min(13 * circle_size, 100)
    ELSE IF easy THEN 5 * circle_size
    ELSE 10 * circle_size

\* stack_threshold = timedelta(milliseconds=ar_to_ms(ar) * stack_leniency)
stack_threshold(ar) == ar_to_ms(ar) * stack_leniency * 100

Reverse(s) == [i \in 1..Len(s) |-> s[Len(s) + 1 - i]]

\* hasattr(ob, "end_time"): Spinner and Slider carry one
EndTime(ob) == IF ob.type \in {"Slider", "Spinner"} THEN ob.end_time ELSE ob.time

----------------------------------------------------------------------------
(* The stacking resolver for format_version >= 6.  A list of objects is a    *)
(* sequence of records [type, position, time, end_time, curve_end];          *)
(* curve_end is curve(1) of a Slider.  stack_height is a sequence of         *)
(* integers, one per object of the (reversed) list.                          *)

\* beatmap.py 1557-1596: the chain of a Circle anchor.  i is the anchor's
\* index, cur the index the local name ob_i is bound to, n the index of ob_n.
RECURSIVE CircleChain(_, _, _, _, _, _)
CircleChain(objs, threshold, i, cur, n, h) ==
    IF n > Len(objs) THEN h
    ELSE IF objs[n].type = "Spinner"
        THEN CircleChain(objs, threshold, i, cur, n + 1, h)
    ELSE IF objs[cur].time - EndTime(objs[n]) > threshold THEN h
    ELSE IF objs[n].type = "Slider" /\ Near(objs[n].curve_end, objs[cur].position)
        THEN LET offset == h[cur] - h[n] + 1
             IN  [j \in 1..Len(objs) |->
                    IF j >= i /\ j < n /\ Near(objs[n].curve_end, objs[j].position)
                    THEN h[j] - offset
                    ELSE h[j]]
    ELSE IF Near(objs[n].position, objs[cur].position)
        THEN CircleChain(objs, threshold, i, n, n + 1, [h EXCEPT ![n] = h[cur] + 1])
    ELSE CircleChain(objs, threshold, i, cur, n + 1, h)

\* beatmap.py 1598-1616: the chain of a Slider anchor
RECURSIVE SliderChain(_, _, _, _, _)
SliderChain(objs, threshold, cur, n, h) ==
    IF n > Len(objs) THEN h
    ELSE IF objs[n].type = "Spinner"
        THEN SliderChain(objs, threshold, cur, n + 1, h)
    ELSE IF objs[cur].time - objs[n].time > threshold THEN h
    ELSE LET ob_n_end_position ==
                 IF objs[n].type = "Slider" THEN objs[n].curve_end
                 ELSE objs[n].position
         IN  IF Near(ob_n_end_position, objs[cur].position)
             THEN SliderChain(objs, threshold, n, n + 1,
                              [h EXCEPT ![n] = h[cur] + 1])
             ELSE SliderChain(objs, threshold, cur, n + 1, h)

\* beatmap.py 1551-1616: the loop over the anchors of the reversed list
RECURSIVE StackHeights(_, _, _, _)
StackHeights(objs, threshold, i, h) ==
    IF i > Len(objs) THEN h
    ELSE IF h[i] # 0 \/ objs[i].type = "Spinner"
        THEN StackHeights(objs, threshold, i + 1, h)
    ELSE IF objs[i].type = "Circle"
        THEN StackHeights(objs, threshold, i + 1,
                          CircleChain(objs, threshold, i, i, i + 1, h))
    ELSE IF objs[i].type = "Slider"
        THEN StackHeights(objs, threshold, i + 1,
                          SliderChain(objs, threshold, i, i + 1, h))
    ELSE StackHeights(objs, threshold, i + 1, h)

\* An apply step that moves the objects in x alone
ApplyStackingX(hit_objects, stack_height, cs) ==
    [k \in 1..Len(hit_objects) |->
        LET offset == stack_offset(cs) * stack_height[k]
            p == hit_objects[k].position
        IN  [hit_objects[k] EXCEPT !.position = <<p[1] - offset, p[2]>>]]

\* beatmap.py 1621-1629 and 1693-1701: every object moves by
\* stack_offset * stack_height in x and in y, in place
ApplyStacking(hit_objects, stack_height, cs) ==
    [k \in 1..Len(hit_objects) |->
        LET offset == stack_offset(cs) * stack_height[k]
            p == hit_objects[k].position
        IN  [hit_objects[k] EXCEPT !.position = <<p[1] - offset, p[2] - offset>>]]

\* The stack heights _resolve_stacking computes, in the order of hit_objects
stack_height_new(hit_objects, ar) ==
    Reverse(StackHeights(Reverse(hit_objects), stack_threshold(ar), 1,
                         [k \in 1..Len(hit_objects) |-> 0]))

\* Beatmap._resolve_stacking
_resolve_stacking(hit_objects, ar, cs) ==
    ApplyStacking(hit_objects, stack_height_new(hit_objects, ar), cs)

----------------------------------------------------------------------------
(* The stacking resolver for format_version < 6.                             *)

\* An old chain that raises the height of the neighbour, as the resolver for
\* format_version >= 6 does, where the old one raises the anchor's
RECURSIVE OldChainNeighbour(_, _, _, _, _, _, _)
OldChainNeighbour(objs, threshold, i, j, st, slider_stack, h) ==
    IF j > Len(objs) THEN h
    ELSE IF objs[j].time - threshold > st THEN h
    ELSE IF Near(objs[j].position, objs[i].position)
        THEN OldChainNeighbour(objs, threshold, i, j + 1, EndTime(objs[j]), slider_stack,
                               [h EXCEPT ![j] = h[i] + 1])
    ELSE IF objs[i].type = "Slider" /\ Near(objs[j].position, objs[i].curve_end)
        THEN OldChainNeighbour(objs, threshold, i, j + 1, EndTime(objs[j]), slider_stack + 1,
                               [h EXCEPT ![j] = h[j] - (slider_stack + 1)])
    ELSE OldChainNeighbour(objs, threshold, i, j + 1, st, slider_stack, h)

\* beatmap.py 1668-1691: the objects after anchor i.  st is start_time.
RECURSIVE OldChain(_, _, _, _, _, _, _)
OldChain(objs, threshold, i, j, st, slider_stack, h) ==
    IF j > Len(objs) THEN h
    ELSE IF objs[j].time - threshold > st THEN h
    ELSE IF Near(objs[j].position, objs[i].position)
        THEN OldChain(objs, threshold, i, j + 1, EndTime(objs[j]), slider_stack,
                      [h EXCEPT ![i] = h[i] + 1])
    ELSE IF objs[i].type = "Slider" /\ Near(objs[j].position, objs[i].curve_end)
        THEN OldChain(objs, threshold, i, j + 1, EndTime(objs[j]), slider_stack + 1,
                      [h EXCEPT ![j] = h[j] - (slider_stack + 1)])
    ELSE OldChain(objs, threshold, i, j + 1, st, slider_stack, h)

\* beatmap.py 1657-1691: the loop over the anchors
RECURSIVE OldStackHeights(_, _, _, _)
OldStackHeights(objs, threshold, i, h) ==
    IF i > Len(objs) THEN h
    ELSE IF h[i] # 0 /\ objs[i].type # "Slider"
        THEN OldStackHeights(objs, threshold, i + 1, h)
    ELSE OldStackHeights(objs, threshold, i + 1,
                         OldChain(objs, threshold, i, i + 1, EndTime(objs[i]), 0, h))

\* The stack heights _resolve_stacking_old computes
stack_height_old(hit_objects, ar) ==
    OldStackHeights(hit_objects, stack_threshold(ar), 1,
                    [k \in 1..Len(hit_objects) |-> 0])

\* Beatmap._resolve_stacking_old
_resolve_stacking_old(hit_objects, ar, cs) ==
    ApplyStacking(hit_objects, stack_height_old(hit_objects, ar), cs)

\* beatmap.py 1495-1498: the resolver hit_objects selects
resolve_stacking_method(version, hit_objects, ar, cs) ==
    IF version >= 6 THEN _resolve_stacking(hit_objects, ar, cs)
    ELSE _resolve_stacking_old(hit_objects, ar, cs)

----------------------------------------------------------------------------
(* Hit objects and their modified copies                                     *)

\* curve_end is curve(1), the one point of a Slider's curve the resolver
\* reads; ticks is Slider.ticks.  A Circle and a Spinner have neither: the
\* fields are there to keep the records of one list alike and are not read.
Circle(position, time) ==
    [type |-> "Circle", position |-> position, time |-> time,
     end_time |-> time, curve_end |-> <<0, 0>>, ticks |-> 0]

Spinner(position, time, end_time) ==
    [type |-> "Spinner", position |-> position, time |-> time,
     end_time |-> end_time, curve_end |-> <<0, 0>>, ticks |-> 0]

Slider(position, time, end_time, curve_end, ticks) ==
    [type |-> "Slider", position |-> position, time |-> time,
     end_time |-> end_time, curve_end |-> curve_end, ticks |-> ticks]

\* Curve.hard_rock, which Slider.hard_rock reads (beatmap.py 580): the curve
\* mirrored like the position, so curve(1) has y -> 384 - y
curve_hard_rock(curve_end) == <<curve_end[1], 3840000 - curve_end[2]>>

\* HitObject.hard_rock and Slider.hard_rock: a new object, built from the
\* attributes the object has now, with y -> 384 - y.  lazyval stores the copy
\* in the instance but, having __set__, is looked up before the instance, so
\* every access builds a new copy.
hard_rock_of(ob) ==
    [ob EXCEPT !.position = <<ob.position[1], 3840000 - ob.position[2]>>,
               !.curve_end = IF ob.type = "Slider"
                             THEN curve_hard_rock(ob.curve_end)
                             ELSE ob.curve_end]

\* timedelta * (num / 3) for num = 2 (double time) and 4 (half time):
\* rounded to the nearest microsecond
scale_time(t, num) == (num * t + 1) \div 3

\* HitObject._time_modify: a new object whose time_related_attributes
\* (time; end_time too for Spinner and Slider) are multiplied
_time_modify(ob, num) ==
    [ob EXCEPT !.time = scale_time(ob.time, num),
               !.end_time = scale_time(ob.end_time, num)]

\* beatmap.py 1508-1511
time_modified(objs, double_time, half_time) ==
    IF double_time THEN [k \in 1..Len(objs) |-> _time_modify(objs[k], 2)]
    ELSE IF half_time THEN [k \in 1..Len(objs) |-> _time_modify(objs[k], 4)]
    ELSE objs

\* beatmap.py 1513-1522: the objects of the kept classes, in order.  Each
\* carries ix, its index in _hit_objects, so that a caller's view of an
\* object can be compared with the object it came from.
RECURSIVE keep_classes(_, _, _)
keep_classes(objs, keep, k) ==
    IF k > Len(objs) THEN <<>>
    ELSE IF objs[k].type \in keep
        THEN <<[ix |-> k, type |-> objs[k].type, position |-> objs[k].position,
                time |-> objs[k].time]>> \o keep_classes(objs, keep, k + 1)
    ELSE keep_classes(objs, keep, k + 1)

----------------------------------------------------------------------------
(* Beatmap.hit_objects                                                       *)

\* An entry of _hit_objects_with_stacking is a list of objects.  shared says
\* that they are the objects of _hit_objects themselves (the resolver was
\* given self._hit_objects and returned the same objects); otherwise they
\* are hard_rock copies that only this entry refers to, held in objs.
CacheObjects(entry, objects) == IF entry.shared THEN objects ELSE entry.objs

\* A hit_objects that forgets to store what it resolved
CacheStoreSkipped(cache, key, entry) == cache

\* beatmap.py 1506: self._hit_objects_with_stacking[stacking_key] = hit_objects
CacheStore(cache, key, entry) == SetItem(cache, key, entry)

CountRun(runs, key) ==
    [k \in DOMAIN runs \cup {key} |->
        IF k = key
        THEN (IF key \in DOMAIN runs THEN Min(runs[key] + 1, MaxRuns) ELSE 1)
        ELSE runs[k]]

\* beatmap.py 1493: stacking_key = (ar, cs)
stacking_key(easy, hard_rock) == <<ar_of(easy, hard_rock), cs_of(easy, hard_rock)>>

\* beatmap.py 1442-1522: Beatmap.hit_objects called with the objects, the
\* cache and the run counts as they are; what it leaves of them, and the
\* tuple it returns.
hit_objects(objects, cache, runs, keep, stacking, easy, hard_rock, double_time, half_time) ==
    LET base == IF hard_rock
                THEN [k \in 1..Len(objects) |-> hard_rock_of(objects[k])]
                ELSE objects
        ar == ar_of(easy, hard_rock)
        cs == cs_of(easy, hard_rock)
        key == stacking_key(easy, hard_rock)
        cached == key \in DOMAIN cache
        resolved == resolve_stacking_method(format_version, base, ar, cs)
        resolve == stacking /\ ~cached
        cache_after ==
            IF resolve
            THEN CacheStore(cache, key,
                            [shared |-> ~hard_rock,
                             objs |-> IF hard_rock THEN resolved ELSE <<>>])
            ELSE cache
        objects_after == IF resolve /\ ~hard_rock THEN resolved ELSE objects
        result == IF ~stacking THEN base
                  ELSE IF cached THEN CacheObjects(cache[key], objects)
                  ELSE resolved
    IN  [objects |-> objects_after,
         cache |-> cache_after,
         runs |-> IF resolve THEN CountRun(runs, key) ELSE runs,
         value |-> keep_classes(time_modified(result, double_time, half_time),
                                keep, 1)]

HitObjects(keep, stacking, easy, hard_rock, double_time, half_time) ==
    LET r == hit_objects(_hit_objects, _hit_objects_with_stacking, resolver_runs,
                         keep, stacking, easy, hard_rock, double_time, half_time)
    IN  /\ _hit_objects' = r.objects
        /\ _hit_objects_with_stacking' = r.cache
        /\ resolver_runs' = r.runs
        /\ ret' = [op |-> "hit_objects",
                   args |-> [keep |-> keep, stacking |-> stacking, easy |-> easy,
                             hard_rock |-> hard_rock, double_time |-> double_time,
                             half_time |-> half_time],
                   raised |-> "",
                   value |-> r.value]
        /\ UNCHANGED <<format_version, approach_rate, circle_size, parsed, star_vars, curve_vars, instance_vars, timing_points, threads>>

----------------------------------------------------------------------------
(* The beatmaps of Spec                                                      *)

FormatVersions == {5, 6}

\* <<approach_rate, circle_size>>
Difficulties == {<<9, 4>>, <<5, 8>>, <<0, 0>>}

\* The objects a beatmap of Spec is made of: [type, position, curve_end,
\* length in microseconds, ticks]
MapKinds ==
    { [type |-> "Circle", position |-> <<1280000, 1280000>>,
       curve_end |-> <<0, 0>>, length |-> 0, ticks |-> 0],
      [type |-> "Spinner", position |-> <<2560000, 1920000>>,
       curve_end |-> <<0, 0>>, length |-> 500000, ticks |-> 0],
      [type |-> "Slider", position |-> <<3000000, 1280000>>,
       curve_end |-> <<1280000, 1280000>>, length |-> 50000, ticks |-> 2],
      [type |-> "Slider", position |-> <<1280000, 1280000>>,
       curve_end |-> <<3000000, 1280000>>, length |-> 50000, ticks |-> 2] }

\* Time between the starts of two consecutive objects, in microseconds
MapGaps == {100000}

RECURSIVE StartTime(_, _)
StartTime(gaps, k) == IF k = 1 THEN 1000000 ELSE StartTime(gaps, k - 1) + gaps[k - 1]

\* The parsed list: the kinds in order, each gap after the previous start
BuildMap(kinds, gaps) ==
    [k \in 1..Len(kinds) |->
        LET time == StartTime(gaps, k)
            kind == kinds[k]
        IN  CASE kind.type = "Circle" -> Circle(kind.position, time)
              [] kind.type = "Spinner" ->
                    Spinner(kind.position, time, time + kind.length)
              [] kind.type = "Slider" ->
                    Slider(kind.position, time, time + kind.length,
                           kind.curve_end, kind.ticks)]

Maps(kindset, gapset, maxlen) ==
    UNION { { BuildMap(kinds, gaps) :
                kinds \in [1..n -> kindset],
                gaps \in [1..(IF n = 0 THEN 0 ELSE n - 1) -> gapset] } :
            n \in 0..maxlen }

\* No curve under consideration
NoCurve == [class |-> "None"]

\* The curve of a slider still to be built from args
InitCurve(args) ==
    /\ curve_args \in args
    /\ curve = NoCurve

\* Beatmap.__init__ (beatmap.py 1256-1264) on a parsed beatmap, without the
\* curves of its sliders
InitObjects(maps, versions, difficulties) ==
    /\ format_version \in versions
    /\ \E d \in difficulties : approach_rate = d[1] /\ circle_size = d[2]
    /\ _hit_objects \in maps
    /\ parsed = [k \in 1..Len(_hit_objects) |-> _hit_objects[k].position]
    /\ _hit_objects_with_stacking = <<>>
    /\ resolver_runs = <<>>
    /\ _aim_stars_cache = <<>>
    /\ _speed_stars_cache = <<>>
    /\ _stars_cache = <<>>
    /\ _rhythm_awkwardness_cache = <<>>
    /\ calculate_stars_calls = <<>>
    /\ ret = [op |-> "init", args |-> <<>>, raised |-> "", value |-> <<>>]
    /\ instance_vars = [k \in 1..Len(_hit_objects) |-> <<>>]

\* Beatmap.__init__ (beatmap.py 1256-1264) on a parsed beatmap; the curves of
\* its sliders are given by their ends (curve_end) alone, and the timing
\* points are left out
InitBeatmap(maps, versions, difficulties) ==
    /\ InitObjects(maps, versions, difficulties)
    /\ InitCurve({<<>>})
    /\ timing_points = <<>>
    /\ threads = <<>>

Init == InitBeatmap(Maps(MapKinds, MapGaps, MaxMapObjs), FormatVersions, Difficulties)

\* (easy, hard_rock, double_time, half_time)
Mods == { <<FALSE, FALSE, FALSE, FALSE>>, <<TRUE, FALSE, FALSE, FALSE>>,
          <<FALSE, TRUE, FALSE, FALSE>>, <<FALSE, FALSE, TRUE, FALSE>>,
          <<TRUE, FALSE, FALSE, TRUE>> }

\* circles, sliders, spinners as the set of kept classes
Keeps == { {"Circle", "Slider", "Spinner"}, {"Circle"} }

Next ==
    \E keep \in Keeps, stacking \in BOOLEAN, m \in Mods :
        HitObjects(keep, stacking, m[1], m[2], m[3], m[4])

Spec == Init /\ [][Next]_vars

----------------------------------------------------------------------------
(* Claims about hit_objects and the stacking cache, checked under Spec       *)

LastWas(op) == ret.op = op

\* The positions of the objects of every cache entry, as the entries see them
CachedPositions(cache, objects) ==
    [key \in DOMAIN cache |->
        [k \in 1..Len(CacheObjects(cache[key], objects)) |->
            CacheObjects(cache[key], objects)[k].position]]

\* C1: a hit_objects(stacking=False) call without hard_rock returns every
\* object at the position it was parsed with, whatever calls came before it
\* (in particular after a hit_objects(stacking=True) call).
C1_BasePositionsKept ==
    (LastWas("hit_objects") /\ ~ret.args.stacking /\ ~ret.args.hard_rock)
        => \A e \in 1..Len(ret.value) :
               ret.value[e].position = parsed[ret.value[e].ix]

\* C2: once an entry is in the stacking cache, no later hit_objects call
\* changes the position of any of its objects.
C2_CacheEntriesFrozen ==
    [][\A key \in DOMAIN _hit_objects_with_stacking :
          /\ key \in DOMAIN _hit_objects_with_stacking'
          /\ CachedPositions(_hit_objects_with_stacking', _hit_objects')[key]
                = CachedPositions(_hit_objects_with_stacking, _hit_objects)[key]]_vars

\* C3: right after hit_objects(stacking=True, mods) returned, its key is in
\* the cache and the resolver ran once for it; the same call made again
\* returns the same objects at the same positions, is served from the cache
\* and leaves the objects, the cache and the run counts as they are.
C3_SecondCallFromCache ==
    (LastWas("hit_objects") /\ ret.args.stacking)
        => LET a == ret.args
               key == stacking_key(a.easy, a.hard_rock)
               again == hit_objects(_hit_objects, _hit_objects_with_stacking,
                                    resolver_runs, a.keep, TRUE, a.easy,
                                    a.hard_rock, a.double_time, a.half_time)
           IN  /\ key \in DOMAIN _hit_objects_with_stacking
               /\ resolver_runs[key] = 1
               /\ again.value = ret.value
               /\ again.runs = resolver_runs
               /\ again.cache = _hit_objects_with_stacking
               /\ again.objects = _hit_objects

\* C3 witness: a stacking call returned an object the resolver has moved
C3_Witness ==
    /\ LastWas("hit_objects") /\ ret.args.stacking /\ ~ret.args.hard_rock
    /\ \E e \in 1..Len(ret.value) :
           ret.value[e].position # parsed[ret.value[e].ix]

\* Whether the parsed beatmap is circles at one position, each at most the
\* stack_threshold of ar after the one before
StackedCircles(objects, ar) ==
    /\ Len(objects) >= 1
    /\ \A k \in 1..Len(objects) :
           /\ objects[k].type = "Circle"
           /\ parsed[k] = parsed[1]
           /\ k > 1 => objects[k].time - objects[k - 1].time <= stack_threshold(ar)

\* C16: on a format_version >= 6 beatmap of k circles at one position (x, y),
\* each within stack_threshold of the one before, hit_objects(stacking=True)
\* returns the circle j-th from the end at (x - j * radius / 10,
\* y - j * radius / 10), radius / 10 being the stack offset of the CS of the
\* call.
C16_StackOfCircles ==
    (/\ LastWas("hit_objects") /\ ret.args.stacking /\ ~ret.args.hard_rock
     /\ format_version >= 6
     /\ StackedCircles(_hit_objects, ar_of(ret.args.easy, FALSE)))
        => \A e \in 1..Len(ret.value) :
               LET j == Len(_hit_objects) - ret.value[e].ix
                   offset == j * stack_offset(cs_of(ret.args.easy, FALSE))
               IN  ret.value[e].position
                       = << parsed[1][1] - offset, parsed[1][2] - offset >>

----------------------------------------------------------------------------
(* The resolvers on their own: SpecResolver calls the resolver the format    *)
(* version selects on a parsed list, and again on its own output, with the   *)
(* AR and CS of one modifier combination.                                    *)

\* The objects a list of SpecResolver is made of: circles 2 px apart in x
\* and y, a spinner, and sliders that end or start where the first circle is
ResolverKinds ==
    { [type |-> "Circle", position |-> <<1280000, 1280000>>,
       curve_end |-> <<0, 0>>, length |-> 0, ticks |-> 0],
      [type |-> "Circle", position |-> <<1300000, 1300000>>,
       curve_end |-> <<0, 0>>, length |-> 0, ticks |-> 0],
      [type |-> "Spinner", position |-> <<2560000, 1920000>>,
       curve_end |-> <<0, 0>>, length |-> 500000, ticks |-> 0],
      [type |-> "Slider", position |-> <<3000000, 1280000>>,
       curve_end |-> <<1280000, 1280000>>, length |-> 50000, ticks |-> 2],
      [type |-> "Slider", position |-> <<1280000, 1280000>>,
       curve_end |-> <<3000000, 1280000>>, length |-> 50000, ticks |-> 2] }

\* 100 ms is inside every stack_threshold of Difficulties, 2 s outside
ResolverGaps == {100000, 2000000}

\* The stack heights the selected resolver computes
stack_height_of(version, objects, ar) ==
    IF version >= 6 THEN stack_height_new(objects, ar)
    ELSE stack_height_old(objects, ar)

\* resolve_stacking_method(hit_objects, ar, cs) called on _hit_objects, which
\* it changes in place, with the AR and CS the modifiers give
Resolve(easy, hard_rock) ==
    LET key == stacking_key(easy, hard_rock)
    IN  /\ resolver_runs = <<>> \/ key \in DOMAIN resolver_runs
        /\ key \in DOMAIN resolver_runs => resolver_runs[key] < MaxRuns
        /\ _hit_objects' = resolve_stacking_method(format_version, _hit_objects,
                                                    key[1], key[2])
        /\ resolver_runs' = CountRun(resolver_runs, key)
        /\ ret' = [op |-> "resolve",
                   args |-> [ar |-> key[1], cs |-> key[2]],
                   raised |-> "",
                   value |-> stack_height_of(format_version, _hit_objects, key[1])]
        /\ UNCHANGED <<format_version, approach_rate, circle_size, parsed,
                       _hit_objects_with_stacking, star_vars, curve_vars, instance_vars, timing_points, threads>>

InitResolver ==
    InitBeatmap(Maps(ResolverKinds, ResolverGaps, MaxObjs), FormatVersions, Difficulties)

NextResolver ==
    \E easy \in BOOLEAN, hard_rock \in BOOLEAN : Resolve(easy, hard_rock)

SpecResolver == InitResolver /\ [][NextResolver]_vars

Positions(objects) == [k \in 1..Len(objects) |-> objects[k].position]

\* C4: once the resolver has run on a list, running it again on its output
\* with the same AR and CS moves no object.
C4_ResolverIdempotent ==
    LastWas("resolve")
        => Positions(resolve_stacking_method(format_version, _hit_objects,
                                             ret.args.ar, ret.args.cs))
             = Positions(_hit_objects)

\* C17: a run of either resolver keeps the number, order, types and times of
\* the objects (and all of an object but its position), and moves object k by
\* h * circle_radius(cs) / 10 in x and by the same in y, h being its integer
\* stack height.
C17_ResolverMovesDiagonally ==
    [][ret'.op = "resolve"
          => /\ Len(_hit_objects') = Len(_hit_objects)
             /\ \A k \in 1..Len(_hit_objects) :
                    LET h == ret'.value[k]
                        p == _hit_objects[k].position
                    IN  /\ h \in Int
                        /\ _hit_objects'[k].position
                               = << p[1] - h * stack_offset(ret'.args.cs),
                                    p[2] - h * stack_offset(ret'.args.cs) >>
                        /\ [_hit_objects'[k] EXCEPT !.position = p]
                               = _hit_objects[k]]_vars

\* C17 witness: a resolver run gave one object a positive and another a
\* negative stack height
C17_Witness ==
    /\ LastWas("resolve")
    /\ \E k \in 1..Len(ret.value) : ret.value[k] > 0
    /\ \E k \in 1..Len(ret.value) : ret.value[k] < 0

----------------------------------------------------------------------------
(* Stars: _calculate_stars and the four getters _stars_cache_value makes     *)

\* mod.py circle_radius: 32 * (1 - 0.7 * (cs - 5) / 5), in 1/10000 px
circle_radius(cs) == 544000 - 4480 * cs

\* The names _stars_cache_value is called with; the cache of name is
\* self._<name>_cache
StarNames == {"speed_stars", "aim_stars", "stars", "rhythm_awkwardness"}

\* The four caches by the name of their getter
StarCaches ==
    [speed_stars |-> _speed_stars_cache, aim_stars |-> _aim_stars_cache,
     stars |-> _stars_cache, rhythm_awkwardness |-> _rhythm_awkwardness_cache]

\* A value _calculate_stars stores.  The float is a function of the
\* difficulty hit objects, which beatmap.py 2350-2375 builds from the radius
\* and from the time-modified objects in the position they have at the time
\* of the call; the model keeps the arguments in place of the float.
star_value(name, objects, radius) ==
    [name |-> name, radius |-> radius,
     hit_objects |-> [k \in 1..Len(objects) |->
                        [type |-> objects[k].type,
                         position |-> objects[k].position,
                         time |-> objects[k].time]]]

\* A _calculate_stars that does not store the rhythm awkwardness
_calculate_stars_without_rhythm(objects, caches, easy, hard_rock, double_time, half_time) ==
    IF Len(objects) = 0 THEN [caches |-> caches, raised |-> "StopIteration"]
    ELSE LET radius == circle_radius(cs_of(easy, hard_rock))
             modified == time_modified(objects, double_time, half_time)
             key == <<easy, hard_rock, double_time, half_time>>
         IN  [caches |->
                [caches EXCEPT
                    !.aim_stars = SetItem(@, key, star_value("aim_stars", modified, radius)),
                    !.speed_stars = SetItem(@, key, star_value("speed_stars", modified, radius)),
                    !.stars = SetItem(@, key, star_value("stars", modified, radius))],
              raised |-> ""]

\* beatmap.py 2330-2430.  next(hit_objects) on an empty map raises
\* StopIteration before anything is stored; otherwise the four values are
\* stored under the same key in the last statements of the method.
_calculate_stars(objects, caches, easy, hard_rock, double_time, half_time) ==
    IF Len(objects) = 0 THEN [caches |-> caches, raised |-> "StopIteration"]
    ELSE LET radius == circle_radius(cs_of(easy, hard_rock))
             modified == time_modified(objects, double_time, half_time)
             key == <<easy, hard_rock, double_time, half_time>>
         IN  [caches |->
                [caches EXCEPT
                    !.aim_stars = SetItem(@, key, star_value("aim_stars", modified, radius)),
                    !.speed_stars = SetItem(@, key, star_value("speed_stars", modified, radius)),
                    !.stars = SetItem(@, key, star_value("stars", modified, radius)),
                    !.rhythm_awkwardness =
                        SetItem(@, key, star_value("rhythm_awkwardness", modified, radius))],
              raised |-> ""]

\* One more call of _calculate_stars for key, made on behalf of getter name
CountCall(calls, key, name) ==
    SetItem(calls, key,
            IF key \in DOMAIN calls
            THEN [calls[key] EXCEPT !.runs = Min(@ + 1, MaxRuns)]
            ELSE [runs |-> 1, caller |-> name])

\* beatmap.py 2450-2467: the getter _stars_cache_value(name, doc) returns,
\* called with the caches and the call counts as they are
_stars_cache_value(name, objects, caches, calls, easy, hard_rock, double_time, half_time) ==
    LET key == <<easy, hard_rock, double_time, half_time>>
        calculated == _calculate_stars(objects, caches, easy, hard_rock,
                                       double_time, half_time)
    IN  IF key \in DOMAIN caches[name]
        THEN [caches |-> caches, calls |-> calls, raised |-> "",
              value |-> caches[name][key]]
        ELSE IF calculated.raised # ""
        THEN [caches |-> calculated.caches, calls |-> CountCall(calls, key, name),
              raised |-> calculated.raised, value |-> <<>>]
        ELSE IF key \notin DOMAIN calculated.caches[name]
        THEN [caches |-> calculated.caches, calls |-> CountCall(calls, key, name),
              raised |-> "KeyError", value |-> <<>>]
        ELSE [caches |-> calculated.caches, calls |-> CountCall(calls, key, name),
              raised |-> "", value |-> calculated.caches[name][key]]

\* The caches become what a call left of them
SetStarCaches(caches, calls) ==
    /\ _speed_stars_cache' = caches.speed_stars
    /\ _aim_stars_cache' = caches.aim_stars
    /\ _stars_cache' = caches.stars
    /\ _rhythm_awkwardness_cache' = caches.rhythm_awkwardness
    /\ calculate_stars_calls' = calls

\* beatmap.stars(...), aim_stars(...), speed_stars(...) or
\* rhythm_awkwardness(...), by name
StarsGetter(name, easy, hard_rock, double_time, half_time) ==
    LET r == _stars_cache_value(name, _hit_objects, StarCaches,
                                calculate_stars_calls, easy, hard_rock,
                                double_time, half_time)
    IN  /\ SetStarCaches(r.caches, r.calls)
        /\ ret' = [op |-> name,
                   args |-> [easy |-> easy, hard_rock |-> hard_rock,
                             double_time |-> double_time, half_time |-> half_time],
                   raised |-> r.raised,
                   value |-> r.value]
        /\ UNCHANGED <<format_version, approach_rate, circle_size, parsed,
                       _hit_objects, _hit_objects_with_stacking, resolver_runs,
                       curve_vars, instance_vars, timing_points, threads>>

\* (easy, hard_rock, double_time, half_time) of the star requests
StarMods == { <<FALSE, FALSE, FALSE, FALSE>>, <<FALSE, TRUE, TRUE, FALSE>> }

StarDifficulties == {<<5, 8>>, <<9, 4>>}

InitStars ==
    InitBeatmap(Maps(MapKinds, MapGaps, MaxMapObjs), {6}, StarDifficulties)

NextStars ==
    \E name \in StarNames, m \in StarMods : StarsGetter(name, m[1], m[2], m[3], m[4])

SpecStars == InitStars /\ [][NextStars]_vars

\* C5: the four star caches hold the same keys, and for every key they hold
\* _calculate_stars was called once, whichever getters were called for it
\* and however often.
C5_StarCachesTogether ==
    /\ DOMAIN _aim_stars_cache = DOMAIN _speed_stars_cache
    /\ DOMAIN _aim_stars_cache = DOMAIN _stars_cache
    /\ DOMAIN _aim_stars_cache = DOMAIN _rhythm_awkwardness_cache
    /\ \A key \in DOMAIN _aim_stars_cache :
            /\ key \in DOMAIN calculate_stars_calls
            /\ calculate_stars_calls[key].runs = 1
    /\ (ret.op \in StarNames /\ ret.raised = "")
            => LET a == ret.args
                   key == <<a.easy, a.hard_rock, a.double_time, a.half_time>>
               IN  /\ key \in DOMAIN StarCaches[ret.op]
                   /\ ret.value = StarCaches[ret.op][key]
                   /\ ret.value.name = ret.op

\* C5 witness: a getter answered for a key that another getter had
\* calculated
C5_Witness ==
    /\ ret.op \in StarNames /\ ret.raised = ""
    /\ LET a == ret.args
           key == <<a.easy, a.hard_rock, a.double_time, a.half_time>>
       IN  /\ calculate_stars_calls[key].runs = 1
           /\ calculate_stars_calls[key].caller # ret.op
           /\ Cardinality(DOMAIN _stars_cache) = 2

----------------------------------------------------------------------------
(* The accuracy-to-hit-count solve, Beatmap._round_hitcounts                 *)
(*                                                                          *)
(* An accuracy is a fraction <<numerator, denominator>> with a positive     *)
(* denominator; an array is a sequence, one entry per outcome.              *)

\* np.round of num / den (den > 0): the nearest integer, a half to the even one
RoundHalfEven(num, den) ==
    LET q == num \div den
        r == num - q * den
    IN  IF 2 * r < den THEN q
        ELSE IF 2 * r > den THEN q + 1
        ELSE IF q % 2 = 0 THEN q ELSE q + 1

\* a <= b for fractions
FracLeq(a, b) == a[1] * b[2] <= b[1] * a[2]

\* An accuracy left as the fraction it was given as
percent_unscaled(acc) == acc

\* accuracy * 100
percent(acc) == <<100 * acc[1], acc[2]>>

\* An accuracy that the best accuracy of the miss count does not bound
clip_accuracy_below(N, acc, miss) ==
    IF FracLeq(percent(acc), <<0, 1>>) THEN <<0, 1>> ELSE percent(acc)

\* beatmap.py 2586-2592: np.maximum(0.0, np.minimum(
\* calculate_accuracy(max_300, 0, 0, count_miss) * 100.0, accuracy * 100))
\* for one entry of a map of N >= 1 objects; calculate_accuracy gives
\* max_300 * 300 / ((max_300 + count_miss) * 300)
clip_accuracy(N, acc, miss) ==
    LET best == <<100 * (N - miss) * 300, N * 300>>
        least == IF FracLeq(best, percent(acc)) THEN best ELSE percent(acc)
    IN  IF FracLeq(least, <<0, 1>>) THEN <<0, 1>> ELSE least

\* (accuracy * 0.01 - 1.0) * len(self._hit_objects) + count_miss, a fraction
hit_deficit(N, pct, miss) ==
    <<(pct[1] - 100 * pct[2]) * N + 100 * pct[2] * miss, 100 * pct[2]>>

\* A mask that is set everywhere once one entry sets it
hitcount_mask_any(count_100, max_300) ==
    [i \in 1..Len(count_100) |-> \E j \in 1..Len(count_100) : count_100[j] > max_300[j]]

\* beatmap.py 2601: mask = count_100 > len(self._hit_objects) - count_miss
hitcount_mask(count_100, max_300) ==
    [i \in 1..Len(count_100) |-> count_100[i] > max_300[i]]

\* An array of shape (1,) used with an array of n entries
Broadcast(a, n) == IF Len(a) = 1 THEN [i \in 1..n |-> a[1]] ELSE a

\* beatmap.py 2560-2620 for a map of N objects.  With N = 0
\* calculate_accuracy is 0 / 0: the accuracy, count_100 and count_300 are
\* nan in every entry, which the result says in its field nan.
_round_hitcounts(N, accuracy, count_miss) ==
    LET n == Max(Len(accuracy), Len(count_miss))
        acc == Broadcast(accuracy, n)
        max_300 == [i \in 1..n |-> N - count_miss[i]]
        pct == [i \in 1..n |-> clip_accuracy(N, acc[i], count_miss[i])]
        deficit == [i \in 1..n |-> hit_deficit(N, pct[i], count_miss[i])]
        \* np.round(-3.0 * deficit * 0.5)
        round_100 == [i \in 1..n |->
                        RoundHalfEven(-3 * deficit[i][1], 2 * deficit[i][2])]
        mask == hitcount_mask(round_100, max_300)
        \* np.round(-6.0 * deficit[mask] * 0.2)
        round_50 == [i \in 1..n |->
                        RoundHalfEven(-6 * deficit[i][1], 5 * deficit[i][2])]
        count_50 == [i \in 1..n |->
                        IF mask[i] THEN Min(max_300[i], round_50[i]) ELSE 0]
        count_100 == [i \in 1..n |->
                        IF mask[i] THEN 0 ELSE Min(max_300[i], round_100[i])]
    IN  IF N = 0
        THEN [nan |-> TRUE, count_300 |-> [i \in 1..n |-> 0],
              count_100 |-> [i \in 1..n |-> 0], count_50 |-> [i \in 1..n |-> 0],
              count_miss |-> count_miss]
        ELSE [nan |-> FALSE,
              count_300 |-> [i \in 1..n |->
                               N - count_100[i] - count_50[i] - count_miss[i]],
              count_100 |-> count_100, count_50 |-> count_50,
              count_miss |-> count_miss]

\* beatmap._round_hitcounts(accuracy, count_miss)
RoundHitcounts(accuracy, count_miss) ==
    /\ ret' = [op |-> "_round_hitcounts",
               args |-> [accuracy |-> accuracy, count_miss |-> count_miss],
               raised |-> "",
               value |-> _round_hitcounts(Len(_hit_objects), accuracy, count_miss)]
    /\ UNCHANGED <<format_version, approach_rate, circle_size, parsed,
                   _hit_objects, _hit_objects_with_stacking, resolver_runs,
                   star_vars, curve_vars, instance_vars, timing_points, threads>>

\* The target accuracies
Accuracies == { <<0, 1>>, <<1, 2>>, <<1, 1>> }

\* The count_miss entries
MissCounts == {0, 1}

\* The arrays of 1..maxlen entries of S
Batches(S, maxlen) == UNION { [1..n -> S] : n \in 1..maxlen }

HitcountKinds ==
    { [type |-> "Circle", position |-> <<1280000, 1280000>>,
       curve_end |-> <<0, 0>>, length |-> 0, ticks |-> 0] }

InitHitcounts ==
    InitBeatmap(Maps(HitcountKinds, MapGaps, MaxHitcountObjs), {6}, {<<5, 8>>})

NextHitcounts ==
    \E accuracy \in Batches(Accuracies, MaxBatch) :
        \E count_miss \in [1..Len(accuracy) -> MissCounts] :
            RoundHitcounts(accuracy, count_miss)

SpecHitcounts == InitHitcounts /\ [][NextHitcounts]_vars

\* The outcome at index i of what _round_hitcounts returned
HitcountsAt(counts, i) ==
    [nan |-> counts.nan, count_300 |-> counts.count_300[i],
     count_100 |-> counts.count_100[i], count_50 |-> counts.count_50[i],
     count_miss |-> counts.count_miss[i]]

\* C7: on a map of N >= 1 objects the solve gives (N, 0, 0, 0) for every
\* entry whose accuracy is 1.0 and whose count_miss is 0.
C7_FullAccuracyAll300 ==
    (LastWas("_round_hitcounts") /\ Len(_hit_objects) >= 1)
        => \A i \in 1..Len(ret.args.accuracy) :
              (ret.args.accuracy[i] = <<1, 1>> /\ ret.args.count_miss[i] = 0)
                  => HitcountsAt(ret.value, i) =
                        [nan |-> FALSE, count_300 |-> Len(_hit_objects),
                         count_100 |-> 0, count_50 |-> 0, count_miss |-> 0]

\* C7 witness: the solve ran on accuracy 1.0 with no miss, next to an entry
\* that is not all 300s
C7_Witness ==
    /\ LastWas("_round_hitcounts") /\ Len(_hit_objects) >= 2
    /\ \E i, j \in 1..Len(ret.args.accuracy) :
          /\ ret.args.accuracy[i] = <<1, 1>> /\ ret.args.count_miss[i] = 0
          /\ ret.value.count_300[i] = Len(_hit_objects)
          /\ ret.value.count_50[j] > 0

----------------------------------------------------------------------------
(* Beatmap.performance_points                                                *)
(*                                                                          *)
(* A call is a record: given, the names of the parameters among accuracy,   *)
(* count_300, count_100, count_50 and count_miss that are not None; their   *)
(* arrays (<<>> when not given); version; and the four modifiers.  combo    *)
(* and the other flags are left at their defaults.                          *)

\* beatmap.py 1759-1770: Beatmap.max_combo
RECURSIVE max_combo(_)
max_combo(objects) ==
    IF objects = <<>> THEN 0
    ELSE (IF Head(objects).type = "Slider" THEN Head(objects).ticks ELSE 1)
            + max_combo(Tail(objects))

CountNames == {"count_300", "count_100", "count_50"}

\* beatmap.py 2724-2754: the hit counts the call goes on with, or what is
\* raised in finding them
pp_counts(N, args) ==
    LET zeros == [i \in 1..Len(args.accuracy) |-> 0]
        sum == [i \in 1..Len(args.count_300) |->
                   args.count_300[i] + args.count_100[i] + args.count_50[i]
                       + args.count_miss[i]]
    IN  IF "accuracy" \in args.given
        THEN IF args.given \cap CountNames # {}
             THEN [raised |-> "ValueError", counts |-> <<>>]
             ELSE [raised |-> "",
                   counts |-> _round_hitcounts(N, args.accuracy,
                                  IF "count_miss" \in args.given
                                  THEN args.count_miss ELSE zeros)]
        ELSE IF args.given \cap CountNames = {}
        THEN [raised |-> "",
              counts |-> _round_hitcounts(N, << <<1, 1>> >>,
                             IF "count_miss" \in args.given
                             THEN args.count_miss ELSE <<0>>)]
        \* count_300 + count_100 + count_50 + count_miss with a None in it
        ELSE IF args.given # CountNames \cup {"count_miss"}
        THEN [raised |-> "TypeError", counts |-> <<>>]
        \* np.all(count_300 + count_100 + count_50 + count_miss != len(...))
        ELSE IF \A i \in 1..Len(sum) : sum[i] # N
        THEN [raised |-> "ValueError", counts |-> <<>>]
        ELSE [raised |-> "", counts |->
                [nan |-> FALSE, count_300 |-> args.count_300,
                 count_100 |-> args.count_100, count_50 |-> args.count_50,
                 count_miss |-> args.count_miss]]

\* beatmap.py 2756-2870 for one outcome, version 2.  The float is a function
\* of the hit counts (through accuracy_scaled and miss_penalty), of combo and
\* max_combo, of the number of hit objects, of the aim and speed stars and,
\* through od and ar, of the modifiers; the model keeps these arguments in
\* place of the float.
pp_value(N, counts, combo, aim, speed, args) ==
    [accuracy_scaled |->
        <<counts.count_300 * 300 + counts.count_100 * 100 + counts.count_50 * 50,
          (counts.count_300 + counts.count_100 + counts.count_50
              + counts.count_miss) * 300>>,
     count_miss |-> counts.count_miss,
     combo |-> combo, max_combo |-> combo, count_hit_objects |-> N,
     aim_stars |-> aim, speed_stars |-> speed,
     mods |-> <<args.easy, args.hard_rock, args.double_time, args.half_time>>]

\* What a call that raises leaves and returns
Raised(caches, calls, exception) ==
    [caches |-> caches, calls |-> calls, raised |-> exception, value |-> <<>>]

\* beatmap.py 2756-2875: the call once the hit counts are known.  With no
\* hit object max_combo is 0 and combo ** 0.8 / self.max_combo ** 0.8
\* divides by zero; version 1 reads self.circles, which Beatmap does not
\* have, after the stars were requested.
pp_score(objects, caches, calls, counts, args) ==
    LET N == Len(objects)
        combo == max_combo(objects)
        aim == _stars_cache_value("aim_stars", objects, caches, calls,
                   args.easy, args.hard_rock, args.double_time, args.half_time)
        speed == _stars_cache_value("speed_stars", objects, aim.caches, aim.calls,
                   args.easy, args.hard_rock, args.double_time, args.half_time)
        out == [i \in 1..Len(counts.count_300) |->
                   pp_value(N, HitcountsAt(counts, i), combo, aim.value,
                            speed.value, args)]
    IN  IF combo = 0 THEN Raised(caches, calls, "ZeroDivisionError")
        ELSE IF aim.raised # "" THEN Raised(aim.caches, aim.calls, aim.raised)
        ELSE IF speed.raised # "" THEN Raised(speed.caches, speed.calls, speed.raised)
        ELSE IF args.version # 2
        THEN Raised(speed.caches, speed.calls, "AttributeError")
        \* if np.shape(out) == (1,): out = np.asscalar(out)
        ELSE [caches |-> speed.caches, calls |-> speed.calls, raised |-> "",
              value |-> IF Len(out) = 1 THEN out[1] ELSE out]

\* A performance_points that asks for the stars before it looks at its
\* arguments
performance_points_stars_first(objects, caches, calls, args) ==
    LET solved == pp_counts(Len(objects), args)
        aim == _stars_cache_value("aim_stars", objects, caches, calls,
                   args.easy, args.hard_rock, args.double_time, args.half_time)
    IN  IF args.version \notin {1, 2}
        THEN Raised(aim.caches, aim.calls, "ValueError")
        ELSE IF solved.raised # ""
        THEN Raised(aim.caches, aim.calls, solved.raised)
        ELSE pp_score(objects, caches, calls, solved.counts, args)

\* beatmap.py 2622-2875, called with the star caches and the call counts
\* as they are
performance_points(objects, caches, calls, args) ==
    LET solved == pp_counts(Len(objects), args)
    IN  IF args.version \notin {1, 2} THEN Raised(caches, calls, "ValueError")
        ELSE IF solved.raised # "" THEN Raised(caches, calls, solved.raised)
        ELSE pp_score(objects, caches, calls, solved.counts, args)

\* The record of a call
PPCall(outcome, version, m) ==
    [given |-> outcome.given, accuracy |-> outcome.accuracy,
     count_300 |-> outcome.count_300, count_100 |-> outcome.count_100,
     count_50 |-> outcome.count_50, count_miss |-> outcome.count_miss,
     version |-> version, easy |-> m[1], hard_rock |-> m[2],
     double_time |-> m[3], half_time |-> m[4]]

PerformancePoints(outcome, version, m) ==
    LET args == PPCall(outcome, version, m)
        r == performance_points(_hit_objects, StarCaches, calculate_stars_calls, args)
    IN  /\ SetStarCaches(r.caches, r.calls)
        /\ ret' = [op |-> "performance_points", args |-> args,
                   raised |-> r.raised, value |-> r.value]
        /\ UNCHANGED <<format_version, approach_rate, circle_size, parsed,
                       _hit_objects, _hit_objects_with_stacking, resolver_runs,
                       curve_vars, instance_vars, timing_points, threads>>

----------------------------------------------------------------------------
(* SpecPP: performance_points on a beatmap whose layout hit_objects may have *)
(* resolved                                                                 *)

\* Column c of an array of <<count_300, count_100, count_50, count_miss>>,
\* if the parameter is given
Column(given, name, counts, c) ==
    IF name \in given THEN [i \in 1..Len(counts) |-> counts[i][c]] ELSE <<>>

\* The parameters of a call that say how the play went
Outcome(given, accuracy, counts, count_miss) ==
    [given |-> given, accuracy |-> accuracy,
     count_300 |-> Column(given, "count_300", counts, 1),
     count_100 |-> Column(given, "count_100", counts, 2),
     count_50 |-> Column(given, "count_50", counts, 3),
     count_miss |-> count_miss]

\* <<accuracy, count_miss>> of one entry of a call with accuracies
PPEntries == { << <<0, 1>>, 0 >>, << <<1, 4>>, 1 >> }

\* accuracy=[...], count_miss=np.array([...])
AccuracyOutcomes ==
    { Outcome({"accuracy", "count_miss"}, [i \in 1..Len(b) |-> b[i][1]], <<>>,
              [i \in 1..Len(b) |-> b[i][2]]) : b \in Batches(PPEntries, MaxBatch) }

\* No outcome at all, and accuracy=[1.0, 0.5] alone
PlainOutcomes ==
    { Outcome({}, <<>>, <<>>, <<>>),
      Outcome({"accuracy"}, << <<1, 1>>, <<1, 2>> >>, <<>>, <<>>) }

\* No outcome at all, and count_miss alone
DefaultOutcomes ==
    { Outcome({}, <<>>, <<>>, <<>>), Outcome({"count_miss"}, <<>>, <<>>, <<1>>) }

\* <<count_300, count_100, count_50, count_miss>> for a map of N objects:
\* all 300s, and one 100 too many
ExplicitEntries(N) == { <<N, 0, 0, 0>>, <<N, 1, 0, 0>> }

\* Arrays of the four counts, and count_miss left out
ExplicitOutcomes(N) ==
    { Outcome(CountNames \cup {"count_miss"}, <<>>, b,
              [i \in 1..Len(b) |-> b[i][4]]) : b \in Batches(ExplicitEntries(N), MaxBatch) }
    \cup { Outcome(CountNames, <<>>, << <<N, 0, 0, 0>> >>, <<>>) }

\* accuracy together with hit counts
MixedOutcomes(N) ==
    { Outcome({"accuracy", "count_50", "count_miss"}, << <<1, 2>> >>,
              << <<0, 0, 1, 0>> >>, <<0>>),
      Outcome({"accuracy"} \cup CountNames, << <<1, 1>>, <<1, 2>> >>,
              << <<N, 0, 0, 0>>, <<N, 0, 0, 0>> >>, <<>>) }

PPVersions == {1, 2, 3}

NoMod == <<FALSE, FALSE, FALSE, FALSE>>

\* (easy, hard_rock, double_time, half_time) of the calls of SpecPP
PPMods == { NoMod, <<TRUE, FALSE, FALSE, FALSE>> }

\* The beatmaps of SpecPP: circles on one spot, or sliders from one spot
PPCircles ==
    { [type |-> "Circle", position |-> <<1280000, 1280000>>,
       curve_end |-> <<0, 0>>, length |-> 0, ticks |-> 0] }

PPSliders ==
    { [type |-> "Slider", position |-> <<1280000, 1280000>>,
       curve_end |-> <<3000000, 1280000>>, length |-> 50000, ticks |-> 2] }

InitPP ==
    InitBeatmap(Maps(PPCircles, MapGaps, MaxPPObjs) \cup Maps(PPSliders, MapGaps, MaxPPObjs),
                {6}, {<<5, 8>>})

NextPP ==
    \/ \E o \in AccuracyOutcomes \cup DefaultOutcomes
                    \cup ExplicitOutcomes(Len(_hit_objects)) :
            PerformancePoints(o, 2, NoMod)
    \/ \E o \in PlainOutcomes \cup MixedOutcomes(Len(_hit_objects)),
           version \in PPVersions, m \in PPMods :
            PerformancePoints(o, version, m)
    \/ HitObjects({"Circle", "Slider", "Spinner"}, TRUE, FALSE, FALSE, FALSE, FALSE)

SpecPP == InitPP /\ [][NextPP]_vars

\* The call of ret.args with entry i of its arrays alone
EntryCall(args, i) ==
    [args EXCEPT !.accuracy = <<args.accuracy[i]>>,
                 !.count_miss = IF "count_miss" \in args.given
                                THEN <<args.count_miss[i]>> ELSE <<>>]

C8_BadCountsRejected ==
    (LastWas("performance_points") /\ ret.args.version \in {1, 2}
            /\ ret.args.given = CountNames \cup {"count_miss"}
            /\ \E i \in 1..Len(ret.args.count_300) :
                  ret.args.count_300[i] + ret.args.count_100[i]
                      + ret.args.count_50[i] + ret.args.count_miss[i]
                          # Len(_hit_objects))
        => ret.raised = "ValueError"

\* The calls C9 is about: an unknown version, or accuracy with a hit count
Rejected(args) ==
    \/ args.version \notin {1, 2}
    \/ "accuracy" \in args.given /\ args.given \cap CountNames # {}

----------------------------------------------------------------------------
(* Slider ticks: the count Slider._parse stores and Slider.tick_points       *)
(*                                                                          *)
(* num_beats and tick_rate are in quarter beats.  A point of tick_points is *)
(* [at, offset]: at is the curve parameter whose position the point has     *)
(* (<<0, 1>> is the slider's own position), offset its time.                *)

\* The least integer >= num / den (den > 0)
Ceil(num, den) == -((-num) \div den)

\* beatmap.py 700-707: (ceil((num_beats - 0.1) / repeat * slider_tick_rate)
\* - 1) * repeat + repeat + 1.  In quarter beats (num_beats - 0.1) *
\* slider_tick_rate is (5 * num_beats - 2) * tick_rate / 80.
parse_ticks(num_beats, repeat, tick_rate) ==
    (Ceil((5 * num_beats - 2) * tick_rate, 80 * repeat) - 1) * repeat + repeat + 1

\* beatmap.py 694-724: the Slider Slider._parse builds.  duration is
\* int(num_beats * ms_per_beat) milliseconds.
ParsedSlider(position, time, curve_end, repeat, num_beats, tick_rate, ms_per_beat) ==
    [type |-> "Slider", position |-> position, time |-> time,
     end_time |-> time + ((num_beats * ms_per_beat) \div 4) * 1000,
     curve_end |-> curve_end,
     ticks |-> parse_ticks(num_beats, repeat, tick_rate),
     repeat |-> repeat, num_beats |-> num_beats, tick_rate |-> tick_rate,
     ms_per_beat |-> ms_per_beat]

\* beatmap.py 535-538: the ticks orange(tick_rate, beats_per_repeat,
\* tick_rate) gives, from t on; t < num_beats / repeat is t * repeat < num_beats
RECURSIVE pre_repeat_steps(_, _)
pre_repeat_steps(ob, t) ==
    IF t * ob.repeat < ob.num_beats
    THEN << [at |-> <<t * ob.repeat, ob.num_beats>>,
             offset |-> ob.time + (t * ob.ms_per_beat * 1000) \div 4] >>
            \o pre_repeat_steps(ob, t + ob.tick_rate)
    ELSE <<>>

\* A tick_points that gives the slider's own position as its first point
tick_points_with_head(ob) ==
    LET repeat_duration == RoundHalfEven(ob.end_time - ob.time, ob.repeat)
        pre_repeat_ticks ==
            pre_repeat_steps(ob, ob.tick_rate)
                \o << [at |-> <<1, 1>>, offset |-> ob.time + repeat_duration] >>
        k == Len(pre_repeat_ticks)
        mirrored == [j \in 1..k |->
                        IF j < k THEN pre_repeat_ticks[k - j].at ELSE <<0, 1>>]
        repeat_ticks == [j \in 1..k |->
                            [at |-> mirrored[j], offset |-> pre_repeat_ticks[j].offset]]
    IN  << [at |-> <<0, 1>>, offset |-> ob.time] >> \o
        [e \in 1..(ob.repeat * k) |->
            LET n == (e - 1) \div k
                p == IF n % 2 = 0 THEN pre_repeat_ticks[((e - 1) % k) + 1]
                     ELSE repeat_ticks[((e - 1) % k) + 1]
            IN  [at |-> p.at, offset |-> p.offset + n * repeat_duration]]

\* A tick_points whose every pass over the curve is the pre-repeat list
tick_points_unmirrored(ob) ==
    LET repeat_duration == RoundHalfEven(ob.end_time - ob.time, ob.repeat)
        pre_repeat_ticks ==
            pre_repeat_steps(ob, ob.tick_rate)
                \o << [at |-> <<1, 1>>, offset |-> ob.time + repeat_duration] >>
        k == Len(pre_repeat_ticks)
    IN  [e \in 1..(ob.repeat * k) |->
            LET n == (e - 1) \div k
                p == pre_repeat_ticks[((e - 1) % k) + 1]
            IN  [at |-> p.at, offset |-> p.offset + n * repeat_duration]]

\* beatmap.py 520-564: Slider.tick_points.  repeat_duration is a timedelta
\* divided by an int, rounded to the microsecond.
tick_points(ob) ==
    LET repeat_duration == RoundHalfEven(ob.end_time - ob.time, ob.repeat)
        pre_repeat_ticks ==
            pre_repeat_steps(ob, ob.tick_rate)
                \o << [at |-> <<1, 1>>, offset |-> ob.time + repeat_duration] >>
        k == Len(pre_repeat_ticks)
        \* chain(pre_repeat_ticks[-2::-1], [self.position])
        mirrored == [j \in 1..k |->
                        IF j < k THEN pre_repeat_ticks[k - j].at ELSE <<0, 1>>]
        repeat_ticks == [j \in 1..k |->
                            [at |-> mirrored[j], offset |-> pre_repeat_ticks[j].offset]]
    IN  [e \in 1..(ob.repeat * k) |->
            LET n == (e - 1) \div k
                p == IF n % 2 = 0 THEN pre_repeat_ticks[((e - 1) % k) + 1]
                     ELSE repeat_ticks[((e - 1) % k) + 1]
            IN  [at |-> p.at, offset |-> p.offset + n * repeat_duration]]

\* hit_object.tick_points read on the slider at index ix
TickPoints(ix) ==
    /\ _hit_objects[ix].type = "Slider"
    /\ ret' = [op |-> "tick_points",
               args |-> [ix |-> ix],
               raised |-> "",
               value |-> tick_points(_hit_objects[ix])]
    /\ UNCHANGED <<format_version, approach_rate, circle_size, parsed,
                   _hit_objects, _hit_objects_with_stacking, resolver_runs,
                   star_vars, curve_vars, instance_vars, timing_points, threads>>

\* slider_tick_rate of the beatmaps of SpecTicks, in quarter beats
TickRates == {2, 4, 8}

\* The beatmaps of SpecTicks: one slider, 400 ms to the beat
TickMaps ==
    { << ParsedSlider(<<1280000, 1280000>>, 1000000, <<3000000, 1280000>>,
                      repeat, num_beats, tick_rate, 400) >> :
        repeat \in 1..MaxRepeat, num_beats \in 0..MaxBeats, tick_rate \in TickRates }

InitTicks == InitBeatmap(TickMaps, {6}, {<<5, 8>>})

NextTicks == \E ix \in 1..Len(_hit_objects) : TickPoints(ix)

SpecTicks == InitTicks /\ [][NextTicks]_vars

C11_TickSegments ==
    LastWas("tick_points")
        => LET ob == _hit_objects[ret.args.ix]
               r == ob.repeat
               k == Len(ret.value) \div r
               repeat_duration == RoundHalfEven(ob.end_time - ob.time, r)
               seg(n, j) == ret.value[n * k + j]
           IN  /\ Len(ret.value) = r * k
               /\ k >= 1
               /\ seg(0, k) = [at |-> <<1, 1>>, offset |-> ob.time + repeat_duration]
               /\ \A j \in 1..(k - 1) :
                      /\ seg(0, j).at = <<j * ob.tick_rate * r, ob.num_beats>>
                      /\ seg(0, j).offset
                            = ob.time + (j * ob.tick_rate * ob.ms_per_beat * 1000) \div 4
               /\ \A n \in 0..(r - 1) : \A j \in 1..k :
                      /\ seg(n, j).offset = seg(0, j).offset + n * repeat_duration
                      /\ seg(n, j).at = IF n % 2 = 0 THEN seg(0, j).at
                                        ELSE IF j < k THEN seg(0, k - j).at
                                        ELSE <<0, 1>>
               /\ ret.value[Len(ret.value)].at
                      = IF r % 2 = 1 THEN <<1, 1>> ELSE <<0, 1>>

\* C11 witness: tick_points of a slider that repeats, with a tick between its
\* ends, so that the mirrored segment differs from the pre-repeat one
C11_Witness ==
    /\ LastWas("tick_points")
    /\ _hit_objects[ret.args.ix].repeat >= 2
    /\ Len(ret.value) >= 2 * _hit_objects[ret.args.ix].repeat
    /\ ret.value[2 * (Len(ret.value) \div _hit_objects[ret.args.ix].repeat)].at
           = <<0, 1>>

----------------------------------------------------------------------------
(* Curves (curve.py)                                                        *)
(*                                                                          *)
(* Control points are <<x, y>> in whole osu! pixels and req_length is in    *)
(* whole pixels.  The length of a Bezier arc and the req_length _ts gives   *)
(* an arc are in units of 1 / LengthDen pixel.  A curve is a record of its  *)
(* class and its attributes; Perfect._angle is a real number got from       *)
(* arctan2 and is left out.  What a curve returns for t is given by the arc *)
(* that is evaluated and the parameter handed to it.                        *)

\* The most control points of a curve
MaxCurvePoints == 3

\* b ** e for e >= 0 (0 ** 0 is 1, as in Python)
RECURSIVE Pow(_, _)
Pow(b, e) == IF e = 0 THEN 1 ELSE b * Pow(b, e - 1)

\* Lengths are in 1 / LengthDen pixel: Bezier.length samples t = k / 4 on
\* arcs of degree < MaxCurvePoints
LengthDen == Pow(4, MaxCurvePoints - 1)

\* curve.py 92: the req_length of an arc before _ts has run
None == -1

\* scipy.misc.comb(n, i)
RECURSIVE comb(_, _)
comb(n, i) == IF i = 0 \/ i = n THEN 1 ELSE comb(n - 1, i - 1) + comb(n - 1, i)

\* curve.py 50-53: Bezier.__init__
Bezier(points, req_length) ==
    [class |-> "Bezier", points |-> points, req_length |-> req_length]

\* curve.py 58-70: Bezier.at(k / 4), times 4 ** (len(points) - 1)
RECURSIVE bezier_sum(_, _, _, _)
bezier_sum(points, k, axis, i) ==
    IF i > Len(points) - 1 THEN 0
    ELSE comb(Len(points) - 1, i) * Pow(4 - k, Len(points) - 1 - i) * Pow(k, i)
             * points[i + 1][axis]
         + bezier_sum(points, k, axis, i + 1)

at(points, k) == << bezier_sum(points, k, 1, 0), bezier_sum(points, k, 2, 0) >>

\* math.sqrt(dx ** 2 + dy ** 2) where it is a whole number
Norm(dx, dy) == CHOOSE r \in 0..(Abs(dx) + Abs(dy)) : r * r = dx * dx + dy * dy

\* Whether every piece of Bezier.length has a whole length in the model's unit
ExactLength(points) ==
    \A i \in 0..3 :
        LET dx == at(points, i + 1)[1] - at(points, i)[1]
            dy == at(points, i + 1)[2] - at(points, i)[2]
        IN  \E r \in 0..(Abs(dx) + Abs(dy)) : r * r = dx * dx + dy * dy

\* curve.py 72-82: Bezier.length, the sum of the four pieces between the
\* points at t = 0, 1/4, 1/2, 3/4, 1, in 1 / LengthDen pixel
RECURSIVE length_from(_, _)
length_from(points, i) ==
    IF i > 3 THEN 0
    ELSE Norm(at(points, i + 1)[1] - at(points, i)[1],
              at(points, i + 1)[2] - at(points, i)[2])
             * Pow(4, MaxCurvePoints - Len(points))
         + length_from(points, i + 1)

length(points) == length_from(points, 0)

\* Bezier.length == 0: the five sampled points are one point
length_is_zero(points) == \A i \in 1..4 : at(points, i) = at(points, 0)

\* curve.py 269-277: split_at_dupes
RECURSIVE split_from(_, _, _)
split_from(inp, oldi, i) ==
    IF i > Len(inp) THEN << SubSeq(inp, oldi, Len(inp)) >>
    ELSE IF inp[i] = inp[i - 1]
         THEN << SubSeq(inp, oldi, i - 1) >> \o split_from(inp, i, i + 1)
         ELSE split_from(inp, oldi, i + 1)

split_at_dupes(inp) == split_from(inp, 1, 2)

\* toolz.sliding_window(2, points)
sliding_window(points) ==
    [i \in 1..(IF Len(points) = 0 THEN 0 ELSE Len(points) - 1) |->
        << points[i], points[i + 1] >>]

\* curve.py 88-92: MetaCurve.__init__
MetaCurve(points, req_length) ==
    [class |-> "MetaCurve", points |-> points, req_length |-> req_length,
     _curves |-> [i \in 1..Len(split_at_dupes(points)) |->
                     Bezier(split_at_dupes(points)[i], None)]]

\* curve.py 129-134: LinearMetaCurve.__init__
LinearMetaCurve(points, req_length) ==
    [class |-> "LinearMetaCurve", points |-> points, req_length |-> req_length,
     _curves |-> [i \in 1..Len(sliding_window(points)) |->
                     Bezier(sliding_window(points)[i], None)]]

\* curve.py 198-200: Catmull.__init__
Catmull(points, req_length) ==
    [class |-> "Catmull", points |-> points, req_length |-> req_length]

\* np.sum(np.square(p - q))
SquaredDistance(p, q) ==
    (p[1] - q[1]) * (p[1] - q[1]) + (p[2] - q[2]) * (p[2] - q[2])

\* A get_center that takes every three distinct points to lie on a circle
get_center_of_any(a, b, c) ==
    LET a_squared == SquaredDistance(b, c)
        b_squared == SquaredDistance(a, c)
        c_squared == SquaredDistance(a, b)
        s == a_squared * (b_squared + c_squared - a_squared)
        t == b_squared * (a_squared + c_squared - b_squared)
        u == c_squared * (a_squared + b_squared - c_squared)
        sum_ == s + t + u
    IN  IF a_squared = 0 \/ b_squared = 0 \/ c_squared = 0
        THEN [raised |-> "ValueError", value |-> <<>>]
        ELSE [raised |-> "",
              value |-> [num |-> << s * a[1] + t * b[1] + u * c[1],
                                    s * a[2] + t * b[2] + u * c[2] >>,
                         den |-> sum_]]

\* curve.py 206-243: get_center.  On whole numbers np.isclose(v, 0) is v = 0.
\* The center is num / den.
get_center(a, b, c) ==
    LET a_squared == SquaredDistance(b, c)
        b_squared == SquaredDistance(a, c)
        c_squared == SquaredDistance(a, b)
        s == a_squared * (b_squared + c_squared - a_squared)
        t == b_squared * (a_squared + c_squared - b_squared)
        u == c_squared * (a_squared + b_squared - c_squared)
        sum_ == s + t + u
    IN  IF a_squared = 0 \/ b_squared = 0 \/ c_squared = 0
        THEN [raised |-> "ValueError", value |-> <<>>]
        ELSE IF sum_ = 0
        THEN [raised |-> "ValueError", value |-> <<>>]
        ELSE [raised |-> "",
              value |-> [num |-> << s * a[1] + t * b[1] + u * c[1],
                                    s * a[2] + t * b[2] + u * c[2] >>,
                         den |-> sum_]]

\* curve.py 140-161: Perfect.__new__ and the attributes _init stores
Perfect(points, req_length) ==
    IF Len(points) # 3 THEN Bezier(points, req_length)
    ELSE LET center == get_center(points[1], points[2], points[3])
         IN  IF center.raised = "ValueError" THEN Bezier(points, req_length)
             ELSE [class |-> "Perfect", points |-> points,
                   req_length |-> req_length, _center |-> center.value]

\* curve.py 42-44, 86, 127, 138, 196: Curve._kind_dispatch
_kind_dispatch == {"B", "L", "P", "C"}

\* curve.py 17-24: Curve.from_kind_and_points
from_kind_and_points(kind, points, req_length) ==
    IF kind \notin _kind_dispatch
    THEN [raised |-> "ValueError", value |-> NoCurve]
    ELSE [raised |-> "",
          value |-> CASE kind = "B" -> MetaCurve(points, req_length)
                      [] kind = "L" -> LinearMetaCurve(points, req_length)
                      [] kind = "P" -> Perfect(points, req_length)
                      [] kind = "C" -> Catmull(points, req_length)]

\* sum(lengths[:i]) of the arcs of a composite curve
RECURSIVE accumulate(_, _)
accumulate(arcs, i) ==
    IF i = 0 THEN 0 ELSE length(arcs[i].points) + accumulate(arcs, i - 1)

\* curve.py 94-107: MetaCurve._ts.  Gives the arcs with the req_length
\* written to them and ts as fractions <<j, length>>.  With no arc
\* lengths[-1] is an IndexError; with several arcs of total length 0 the
\* first j / length is a ZeroDivisionError, raised after the first arc got
\* its req_length.
_ts(c) ==
    LET n == Len(c._curves)
        total == accumulate(c._curves, n)
        last == Max(0, length(c._curves[n].points)
                           - (total - c.req_length * LengthDen))
    IN  IF n = 0
        THEN [raised |-> "IndexError", _curves |-> c._curves, ts |-> <<>>]
        ELSE IF n > 1 /\ total = 0
        THEN [raised |-> "ZeroDivisionError",
              _curves |-> [c._curves EXCEPT ![1].req_length
                                                = length(c._curves[1].points)],
              ts |-> <<>>]
        ELSE [raised |-> "",
              _curves |-> [i \in 1..n |->
                              [c._curves[i] EXCEPT !.req_length =
                                  IF i < n THEN length(c._curves[i].points)
                                  ELSE last]],
              ts |-> [i \in 1..n |->
                         IF i < n THEN << accumulate(c._curves, i), total >>
                         ELSE IF total = 0 THEN <<1, 1>>
                         ELSE << total, total >>]]

\* curve.py 55-56: Bezier.__call__ on arc number arc of a curve (0 for a
\* curve that is a Bezier itself).  req_length / length does not divide by 0.
bezier_call(b, arc, t) ==
    IF length_is_zero(b.points)
    THEN [raised |-> "ZeroDivisionError", value |-> <<>>]
    ELSE [raised |-> "", value |-> [arc |-> arc, t |-> t]]

\* bisect.bisect_left(ts, t): how many entries of ts are below t
bisect_left(ts, t) ==
    Cardinality({ i \in 1..Len(ts) : ts[i][1] * t[2] < t[1] * ts[i][2] })

\* curve.py 109-123: MetaCurve.__call__ for t = <<num, den>> in [0, 1]
metacurve_call(c, t) ==
    LET r == _ts(c)
        now == [c EXCEPT !._curves = r._curves]
        bi == bisect_left(r.ts, t)
        pre_t == IF bi = 0 THEN 0 ELSE r.ts[bi][1]
        post_t == r.ts[bi + 1][1]
        total == r.ts[bi + 1][2]
        inner == bezier_call(now._curves[bi + 1], bi + 1,
                             << t[1] * total - pre_t * t[2],
                                t[2] * (post_t - pre_t) >>)
        single == bezier_call(now._curves[1], 1, t)
    IN  IF r.raised # ""
        THEN [curve |-> now, raised |-> r.raised, value |-> <<>>]
        ELSE IF Len(c._curves) = 1
        THEN [curve |-> now, raised |-> single.raised, value |-> single.value]
        ELSE IF post_t = pre_t
        THEN [curve |-> now, raised |-> "ZeroDivisionError", value |-> <<>>]
        ELSE [curve |-> now, raised |-> inner.raised, value |-> inner.value]

\* A Catmull.__call__ that answers with the first control point
catmull_call_first_point(c, t) ==
    [curve |-> c, raised |-> "", value |-> c.points[1]]

\* curve.py 202-203: Catmull.__call__
catmull_call(c, t) ==
    [curve |-> c, raised |-> "NotImplementedError", value |-> <<>>]

\* curve.py 191-192: Perfect.__call__, rotate(points[0], _center, _angle * t)
perfect_call(c, t) ==
    [curve |-> c, raised |-> "", value |-> [arc |-> 0, t |-> t]]

\* curve(t) for a curve of any class
curve_call(c, t) ==
    CASE c.class = "Bezier" ->
            [curve |-> c, raised |-> bezier_call(c, 0, t).raised,
             value |-> bezier_call(c, 0, t).value]
      [] c.class \in {"MetaCurve", "LinearMetaCurve"} -> metacurve_call(c, t)
      [] c.class = "Perfect" -> perfect_call(c, t)
      [] c.class = "Catmull" -> catmull_call(c, t)

\* Slider._parse (beatmap.py 714) builds the curve of the slider
FromKindAndPoints ==
    /\ curve = NoCurve
    /\ LET r == from_kind_and_points(curve_args[1], curve_args[2], curve_args[3])
       IN  /\ curve' = r.value
           /\ ret' = [op |-> "from_kind_and_points", args |-> curve_args,
                      raised |-> r.raised, value |-> r.value]
    /\ UNCHANGED <<format_version, approach_rate, circle_size, parsed,
                   _hit_objects, _hit_objects_with_stacking, resolver_runs,
                   star_vars, curve_args, instance_vars, timing_points, threads>>

\* curve(t) on the curve that was built
CurveCall(t) ==
    /\ curve # NoCurve
    /\ LET r == curve_call(curve, t)
       IN  /\ curve' = r.curve
           /\ ret' = [op |-> "__call__", args |-> [t |-> t],
                      raised |-> r.raised, value |-> r.value]
    /\ UNCHANGED <<format_version, approach_rate, circle_size, parsed,
                   _hit_objects, _hit_objects_with_stacking, resolver_runs,
                   star_vars, curve_args, instance_vars, timing_points, threads>>

\* The control points of the curves of SpecCurve: three on a line, and
\* corners of a 3-4-5 triangle
CurveGrid == { <<0, 0>>, <<3, 0>>, <<6, 0>>, <<3, 4>>, <<0, 4>> }

\* The requested lengths of the curves of SpecCurve, in pixels
ReqLengths == {0, 2, 5, 9}

\* t of curve(t), as fractions
CurveTs == { <<0, 1>>, <<1, 2>>, <<1, 1>> }

\* Sequences of 1..maxlen control points
PointLists(maxlen) == UNION { [1..n -> CurveGrid] : n \in 1..maxlen }

\* (kind, points, req_length) of SpecCurve.  The arcs of a composite curve
\* have whole lengths in the model's unit.
CurveArgs ==
    { << kind, points, req_length >> :
        kind \in _kind_dispatch, points \in PointLists(MaxCurvePoints),
        req_length \in ReqLengths }

ExactCurveArgs ==
    { a \in CurveArgs :
        /\ a[1] = "B" => \A i \in 1..Len(split_at_dupes(a[2])) :
                             ExactLength(split_at_dupes(a[2])[i])
        /\ a[1] = "L" => \A i \in 1..Len(sliding_window(a[2])) :
                             ExactLength(sliding_window(a[2])[i]) }

InitCurves ==
    /\ InitObjects({<<>>}, {14}, {<<5, 4>>})
    /\ InitCurve(ExactCurveArgs)
    /\ timing_points = <<>>
    /\ threads = <<>>

NextCurve ==
    \/ FromKindAndPoints
    \/ \E t \in CurveTs : CurveCall(t)

SpecCurve == InitCurves /\ [][NextCurve]_vars

\* Whether a, b, c lie on one line (the cross product of b - a and c - a)
Collinear(a, b, c) ==
    (b[1] - a[1]) * (c[2] - a[2]) = (b[2] - a[2]) * (c[1] - a[1])

\* C12: building a 'P' curve never raises.  It gives Bezier(points,
\* req_length) exactly when there are not three points, or two of the three
\* coincide, or the three are on one line, and a Perfect arc otherwise; a
\* fallback curve answers every t as the Bezier of the same points does.
C12_PerfectFallsBackToBezier ==
    (curve # NoCurve /\ curve_args[1] = "P")
        => LET points == curve_args[2]
               fallback == \/ Len(points) # 3
                           \/ points[1] = points[2]
                           \/ points[2] = points[3]
                           \/ points[1] = points[3]
                           \/ Collinear(points[1], points[2], points[3])
           IN  /\ (ret.op = "from_kind_and_points" => ret.raised = "")
               /\ curve.class \in {"Bezier", "Perfect"}
               /\ curve.class = "Bezier" <=> fallback
               /\ curve.points = points /\ curve.req_length = curve_args[3]
               /\ fallback => /\ curve = Bezier(points, curve_args[3])
                              /\ \A t \in CurveTs :
                                     curve_call(curve, t)
                                         = curve_call(Bezier(points, curve_args[3]), t)

\* C12 witness: a 'P' curve built from three distinct points on one line
C12_Witness ==
    /\ LastWas("from_kind_and_points") /\ curve_args[1] = "P"
    /\ Len(curve_args[2]) = 3
    /\ Cardinality({curve_args[2][i] : i \in 1..3}) = 3
    /\ Collinear(curve_args[2][1], curve_args[2][2], curve_args[2][3])
    /\ curve.class = "Bezier"

\* C13: building a 'C' curve succeeds and stores the points; evaluating it
\* raises NotImplementedError for every t, every time, and gives no position.
C13_CatmullUnsupported ==
    (curve # NoCurve /\ curve_args[1] = "C")
        => /\ curve = Catmull(curve_args[2], curve_args[3])
           /\ ret.op = "from_kind_and_points" => ret.raised = ""
           /\ ret.op = "__call__"
                 => ret.raised = "NotImplementedError" /\ ret.value = <<>>
           /\ \A t \in CurveTs :
                  /\ curve_call(curve, t).raised = "NotImplementedError"
                  /\ curve_call(curve, t).value = <<>>

\* C13 witness: a Catmull curve was evaluated
C13_Witness ==
    /\ LastWas("__call__") /\ curve_args[1] = "C"
    /\ curve.points = curve_args[2]
    /\ ret.raised = "NotImplementedError"

\* sum of the req_length of the first i arcs
RECURSIVE req_length_sum(_, _)
req_length_sum(arcs, i) ==
    IF i = 0 THEN 0 ELSE arcs[i].req_length + req_length_sum(arcs, i - 1)

\* C14: once _ts has given every arc of a composite curve of several arcs
\* its req_length, these add up to the req_length of the curve.
C14_ArcLengthsSum ==
    (/\ curve.class \in {"MetaCurve", "LinearMetaCurve"}
     /\ Len(curve._curves) > 1
     /\ \A i \in 1..Len(curve._curves) : curve._curves[i].req_length # None)
        => req_length_sum(curve._curves, Len(curve._curves))
               = curve.req_length * LengthDen

----------------------------------------------------------------------------
(* Strain of a pair of hit objects (_DifficultyHitObject)                   *)
(*                                                                          *)
(* The strain _calculate_strain adds for a pair is a float,                 *)
(* spacing weight * weight_scaling / max(time_elapsed, 50).  The model      *)
(* keeps it as the record of its numerator (the spacing weight by what it   *)
(* is computed from, and the scaling) and its divisor in microseconds.      *)

\* The most steps by which the gap of a pair of SpecStrain grows
MaxGapSteps == 4

\* beatmap.py 1014-1019: scaling_factor of a radius (1/10000 px), as the
\* fraction <<num, den>>
scaling_factor(radius) ==
    IF radius < 300000
    THEN << 52 * (500000 + Min(300000 - radius, 50000)), 50 * radius >>
    ELSE << 52 * 500000, 50 * radius >>

\* beatmap.py 1057-1073: _distance, by the two positions and the factor that
\* normalizes them; it is 0 exactly when the positions are equal
_distance(self, previous, radius) ==
    [start |-> self.position, end |-> previous.position,
     scaling_factor |-> scaling_factor(radius)]

\* beatmap.py 1000: weight_scaling, in hundredths
weight_scaling(strain) == IF strain = "speed" THEN 140000 ELSE 2625

\* beatmap.py 1075-1102: _spacing_weight, by its arguments
_spacing_weight(distance, strain) == [strain |-> strain, distance |-> distance]

\* beatmap.py 1076-1102: the speed weight is 0.95 or more; the aim weight is
\* distance ** 0.99, which is 0 for distance 0 and positive otherwise
weight_positive(weight) ==
    \/ weight.strain = "speed"
    \/ weight.distance.start # weight.distance.end

\* A _calculate_strain that divides by the time elapsed, however short
_calculate_strain_unclamped(self, previous, strain, radius) ==
    [result |-> IF self.type \in {"Circle", "Slider"}
                THEN [weight |-> _spacing_weight(_distance(self, previous, radius), strain),
                      scaling |-> weight_scaling(strain)]
                ELSE [weight |-> 0, scaling |-> 0],
     divisor |-> self.time - previous.time]

\* beatmap.py 1035-1055: _calculate_strain for a previous object whose own
\* strains are 0 (the first of the beatmap), so that what it returns is the
\* term of the pair, result / max(time_elapsed, 50)
_calculate_strain(self, previous, strain, radius) ==
    [result |-> IF self.type \in {"Circle", "Slider"}
                THEN [weight |-> _spacing_weight(_distance(self, previous, radius), strain),
                      scaling |-> weight_scaling(strain)]
                ELSE [weight |-> 0, scaling |-> 0],
     divisor |-> Max(self.time - previous.time, 50000)]

\* Whether the numerator of a strain term is positive
result_positive(term) ==
    term.result.scaling > 0 /\ weight_positive(term.result.weight)

\* a < b for two strain terms of one numerator
TermLess(a, b) ==
    /\ a.result = b.result
    /\ result_positive(a)
    /\ a.divisor > b.divisor

\* a = b for two strain terms of one numerator
TermEqual(a, b) ==
    /\ a.result = b.result
    /\ ~result_positive(a) \/ a.divisor = b.divisor

\* beatmap.py 1011-1033, 2349-2375: the strain of the second hit object
StrainOf(objects, strain) ==
    _calculate_strain(objects[2], objects[1], strain, circle_radius(circle_size * 10))

\* _DifficultyHitObject(hit_object, radius, previous) computes the strains
CalculateStrain(strain) ==
    /\ Len(_hit_objects) = 2
    /\ ret' = [op |-> "_calculate_strain", args |-> [strain |-> strain],
               raised |-> "", value |-> StrainOf(_hit_objects, strain)]
    /\ UNCHANGED <<format_version, approach_rate, circle_size, parsed,
                   _hit_objects, _hit_objects_with_stacking, resolver_runs,
                   star_vars, curve_vars, instance_vars, timing_points, threads>>

\* The time gaps of the pairs of SpecStrain, in microseconds: 10 ms and
\* then 20 ms more at every step
StrainGaps == { 10000 + 20000 * k : k \in 0..MaxGapSteps }

\* The second object of a pair, gap after the first
StrainKinds(gap) ==
    { Circle(<<1280000, 1280000>>, 1000000 + gap),
      Circle(<<2560000, 1280000>>, 1000000 + gap),
      Slider(<<2560000, 1280000>>, 1000000 + gap, 1200000 + gap, <<3000000, 1280000>>, 2),
      Spinner(<<2560000, 1920000>>, 1000000 + gap, 1500000 + gap) }

\* The first object of a pair
StrainFirsts ==
    { Circle(<<1280000, 1280000>>, 1000000),
      Slider(<<1280000, 1280000>>, 1000000, 1000000, <<1280000, 1280000>>, 2) }

StrainMaps ==
    { << first, second >> :
        first \in StrainFirsts, second \in UNION { StrainKinds(g) : g \in StrainGaps } }

InitStrain == InitBeatmap(StrainMaps, {14}, {<<5, 4>>, <<5, 7>>})

NextStrain == \E strain \in {"speed", "aim"} : CalculateStrain(strain)

SpecStrain == InitStrain /\ [][NextStrain]_vars

\* The pair with the second object moved to gap after the first
WithGap(objects, gap) ==
    LET shift == objects[1].time + gap - objects[2].time
    IN  [objects EXCEPT ![2].time = @ + shift, ![2].end_time = @ + shift]

\* C15 as the spec has it: for every larger gap the strain term of the pair
\* is strictly smaller, on both axes.
C15_StrainStrictlyDecreasing ==
    LastWas("_calculate_strain")
        => \A g \in StrainGaps :
               g > _hit_objects[2].time - _hit_objects[1].time
                   => TermLess(StrainOf(WithGap(_hit_objects, g), ret.args.strain),
                               ret.value)

\* C15, amended: for every larger gap the strain term of the pair is not
\* larger, on both axes; it is strictly smaller exactly when the larger gap
\* is above 50 ms and the second object is a circle or slider (for aim: at
\* another position than the first), and equal otherwise.
C15_StrainNotIncreasing ==
    LastWas("_calculate_strain")
        => \A g \in StrainGaps :
               g > _hit_objects[2].time - _hit_objects[1].time
                   => LET other == StrainOf(WithGap(_hit_objects, g), ret.args.strain)
                          moves == /\ _hit_objects[2].type \in {"Circle", "Slider"}
                                   /\ \/ ret.args.strain = "speed"
                                      \/ _hit_objects[2].position # _hit_objects[1].position
                      IN  /\ TermLess(other, ret.value) \/ TermEqual(other, ret.value)
                          /\ TermLess(other, ret.value) <=> (g > 50000 /\ moves)
                          /\ TermEqual(other, ret.value) <=> ~(g > 50000 /\ moves)

\* C15 witness: the strain of a circle 10 ms after the first object, at
\* another position: equal to that at 30 ms, above that at 70 ms
C15_Witness ==
    /\ LastWas("_calculate_strain")
    /\ _hit_objects[2].type = "Circle"
    /\ _hit_objects[2].position # _hit_objects[1].position
    /\ _hit_objects[2].time - _hit_objects[1].time = 10000
    /\ TermEqual(StrainOf(WithGap(_hit_objects, 30000), ret.args.strain), ret.value)
    /\ TermLess(StrainOf(WithGap(_hit_objects, 70000), ret.args.strain), ret.value)

----------------------------------------------------------------------------
(* Beatmap.closest_hitobject                                                *)

\* The most hit objects of a beatmap of SpecClosest
MaxClosestObjs == 3

\* The most steps of 50 ms from 900 ms on that closest_hitobject is asked for
MaxTimeSteps == 11

\* np.searchsorted(times, t): how many of the sorted times are below t
searchsorted(objects, t) ==
    Cardinality({ k \in 1..Len(objects) : objects[k].time < t })

\* beatmap.py 1712-1757: Beatmap.closest_hitobject; value is the index in
\* _hit_objects of the object it returns.  For side other than "left"
\* hitobj1_closer is dist1 < dist1.
closest_hitobject(objects, t, side) ==
    LET i == searchsorted(objects, t)
        dist1 == Abs(objects[i].time - t)
        dist2 == Abs(objects[i + 1].time - t)
        hitobj1_closer == IF side = "left" THEN dist1 <= dist2 ELSE dist1 < dist1
    IN  IF Len(objects) = 0 THEN [raised |-> "ValueError", value |-> 0]
        ELSE IF Len(objects) = 1 THEN [raised |-> "", value |-> 1]
        ELSE IF i = Len(objects) THEN [raised |-> "", value |-> Len(objects)]
        ELSE IF i = 0 THEN [raised |-> "", value |-> 1]
        ELSE IF hitobj1_closer THEN [raised |-> "", value |-> i]
        ELSE [raised |-> "", value |-> i + 1]

ClosestHitobject(t, side) ==
    LET r == closest_hitobject(_hit_objects, t, side)
    IN  /\ ret' = [op |-> "closest_hitobject", args |-> [t |-> t, side |-> side],
                   raised |-> r.raised, value |-> r.value]
        /\ UNCHANGED <<format_version, approach_rate, circle_size, parsed,
                       _hit_objects, _hit_objects_with_stacking, resolver_runs,
                       star_vars, curve_vars, instance_vars, timing_points, threads>>

\* The times closest_hitobject is asked for: every 50 ms from 900 ms on
ClosestTimes == { 900000 + 50000 * k : k \in 0..MaxTimeSteps }

\* Time between two hit objects of SpecClosest
ClosestGaps == {100000, 200000}

ClosestKinds ==
    { [type |-> "Circle", position |-> <<1280000, 1280000>>,
       curve_end |-> <<0, 0>>, length |-> 0, ticks |-> 0] }

InitClosest ==
    InitBeatmap(Maps(ClosestKinds, ClosestGaps, MaxClosestObjs), {14}, {<<5, 4>>})

NextClosest ==
    \E t \in ClosestTimes, side \in {"left", "right"} : ClosestHitobject(t, side)

SpecClosest == InitClosest /\ [][NextClosest]_vars

\* C18: on a beatmap with hit objects closest_hitobject(t, side) returns an
\* object whose time is as close to t as any; when the neighbours of t are
\* equally far it is the earlier one for side "left" and the later one for
\* "right".  On a beatmap without hit objects it raises ValueError.
C18_ClosestHitobject ==
    LastWas("closest_hitobject")
        => IF Len(_hit_objects) = 0 THEN ret.raised = "ValueError"
           ELSE LET t == ret.args.t
                    dist(k) == Abs(_hit_objects[k].time - t)
                    nearest == { k \in 1..Len(_hit_objects) :
                                   \A m \in 1..Len(_hit_objects) : dist(k) <= dist(m) }
                    earliest == CHOOSE k \in nearest : \A m \in nearest : k <= m
                    latest == CHOOSE k \in nearest : \A m \in nearest : k >= m
                IN  /\ ret.raised = ""
                    /\ ret.value \in nearest
                    /\ ret.value = IF ret.args.side = "left" THEN earliest ELSE latest

----------------------------------------------------------------------------
(* Timing points: Beatmap.timing_point_at and the scan of Slider._parse     *)
(*                                                                          *)
(* A timing point is [offset], in microseconds; it is named by its index in *)
(* the list.                                                                *)

\* The most timing points of a beatmap of SpecTiming
MaxTimingPoints == 3

\* for tp in reversed(timing_points): if tp.offset <= time: the point found,
\* from index k down; 0 when the loop ends without one
RECURSIVE scan_reversed(_, _, _)
scan_reversed(points, time, k) ==
    IF k = 0 THEN 0
    ELSE IF points[k].offset <= time THEN k
    ELSE scan_reversed(points, time, k - 1)

\* A timing_point_at that scans from the front
timing_point_at_forward(points, time) ==
    IF Len(points) = 0 THEN [raised |-> "IndexError", value |-> 0]
    ELSE LET at_or_before == { k \in 1..Len(points) : points[k].offset <= time }
         IN  [raised |-> "",
              value |-> IF at_or_before = {} THEN 1
                        ELSE CHOOSE k \in at_or_before :
                                 \A m \in at_or_before : k <= m]

\* beatmap.py 2107-2124: Beatmap.timing_point_at; timing_points[0] on an
\* empty list is an IndexError
timing_point_at(points, time) ==
    LET found == scan_reversed(points, time, Len(points))
    IN  IF found # 0 THEN [raised |-> "", value |-> found]
        ELSE IF Len(points) = 0 THEN [raised |-> "IndexError", value |-> 0]
        ELSE [raised |-> "", value |-> 1]

\* beatmap.py 681-685: the timing point Slider._parse takes for a slider at
\* time (for ... break, else timing_points[0])
_parse_timing_point(points, time) ==
    LET found == scan_reversed(points, time, Len(points))
    IN  IF found # 0 THEN [raised |-> "", value |-> found]
        ELSE IF Len(points) = 0 THEN [raised |-> "IndexError", value |-> 0]
        ELSE [raised |-> "", value |-> 1]

TimingPointAt(time) ==
    LET r == timing_point_at(timing_points, time)
    IN  /\ ret' = [op |-> "timing_point_at", args |-> [time |-> time],
                   raised |-> r.raised, value |-> r.value]
        /\ UNCHANGED <<format_version, approach_rate, circle_size, parsed,
                       _hit_objects, _hit_objects_with_stacking, resolver_runs,
                       star_vars, curve_vars, instance_vars, timing_points, threads>>

\* Slider._parse looks up the timing point of a slider that starts at time
ParseTimingPoint(time) ==
    LET r == _parse_timing_point(timing_points, time)
    IN  /\ ret' = [op |-> "_parse", args |-> [time |-> time],
                   raised |-> r.raised, value |-> r.value]
        /\ UNCHANGED <<format_version, approach_rate, circle_size, parsed,
                       _hit_objects, _hit_objects_with_stacking, resolver_runs,
                       star_vars, curve_vars, instance_vars, timing_points, threads>>

\* The offsets of the timing points of SpecTiming
TimingOffsets == {1000000, 2000000, 3000000}

\* The times a timing point is looked up for
TimingTimes == {500000, 1000000, 1500000, 2000000, 3500000}

\* Lists of up to MaxTimingPoints timing points, in any order of offsets
TimingLists ==
    UNION { [1..n -> [offset : TimingOffsets]] : n \in 0..MaxTimingPoints }

InitTiming ==
    /\ InitObjects({<<>>}, {14}, {<<5, 4>>})
    /\ InitCurve({<<>>})
    /\ timing_points \in TimingLists
    /\ threads = <<>>

NextTiming ==
    \/ \E time \in TimingTimes : TimingPointAt(time)
    \/ \E time \in TimingTimes : ParseTimingPoint(time)

SpecTiming == InitTiming /\ [][NextTiming]_vars

\* C19: timing_point_at(T), and the scan of Slider._parse, give the timing
\* point of the greatest list index among those with offset <= T (of points
\* with one offset the one listed later), and the first point of the list
\* when no point has offset <= T.
C19_LastTimingPointWins ==
    ((LastWas("timing_point_at") \/ LastWas("_parse")) /\ Len(timing_points) > 0)
        => LET at_or_before == { k \in 1..Len(timing_points) :
                                   timing_points[k].offset <= ret.args.time }
           IN  /\ ret.raised = ""
               /\ ret.value = IF at_or_before = {} THEN 1
                              ELSE CHOOSE k \in at_or_before :
                                       \A m \in at_or_before : m <= k

\* C19 witness: timing_point_at chose the later of two points of one offset,
\* with an earlier-listed point of a later offset that is also at or before T
C19_Witness ==
    /\ LastWas("timing_point_at")
    /\ \E k \in 1..Len(timing_points), m \in 1..Len(timing_points) :
           /\ k < m /\ ret.value = m
           /\ timing_points[k].offset = timing_points[m].offset
    /\ \E k \in 1..Len(timing_points) :
           /\ timing_points[k].offset > timing_points[ret.value].offset
           /\ timing_points[k].offset <= ret.args.time

----------------------------------------------------------------------------
(* Two threads in hit_objects(stacking=True) on one Beatmap                 *)
(*                                                                          *)
(* Nothing in hit_objects or the resolvers takes a lock, so a thread can be *)
(* switched out between any two of: the test of the cache (beatmap.py       *)
(* 1501), the resolver's computation of the stack heights (1547-1616 and    *)
(* 1656-1691), its loop that writes the positions (1625-1629 and            *)
(* 1697-1701), and the store into the cache (1506).  threads[t] is          *)
(* [pc, easy, absent, stack_height]: absent says that the thread found the  *)
(* key missing, stack_height is the resolver's local dict.                  *)

\* The threads that call hit_objects
Threads == {1, 2}

\* A resolver that moves copies of the objects and leaves the shared alone
ResolvedOnCopies(objects, resolved) == objects

\* beatmap.py 1625-1629, 1697-1701: hit_object.position = p_new is written
\* to the objects the resolver was given, which are those of _hit_objects
ResolvedInPlace(objects, resolved) == resolved

\* The key of the call thread t makes (no hard_rock)
ThreadKey(t) == stacking_key(threads[t].easy, FALSE)

\* beatmap.py 1483-1502: the call up to the test of the cache; a thread that
\* finds the key returns the cached objects
ThreadCheck(t) ==
    /\ threads[t].pc = "check"
    /\ IF ThreadKey(t) \in DOMAIN _hit_objects_with_stacking
       THEN /\ threads' = [threads EXCEPT ![t].pc = "done"]
            /\ ret' = [op |-> "hit_objects",
                       args |-> [thread |-> t, easy |-> threads[t].easy],
                       raised |-> "",
                       value |-> keep_classes(
                           CacheObjects(_hit_objects_with_stacking[ThreadKey(t)],
                                        _hit_objects),
                           {"Circle", "Slider", "Spinner"}, 1)]
       ELSE /\ threads' = [threads EXCEPT ![t].pc = "heights", ![t].absent = TRUE]
            /\ UNCHANGED ret
    /\ UNCHANGED <<format_version, approach_rate, circle_size, parsed,
                   _hit_objects, _hit_objects_with_stacking, resolver_runs,
                   star_vars, curve_vars, instance_vars, timing_points>>

\* beatmap.py 1544-1616, 1653-1691: the resolver computes the stack heights
\* from the positions the shared objects have now
ThreadHeights(t) ==
    /\ threads[t].pc = "heights"
    /\ threads' = [threads EXCEPT
                      ![t].pc = "apply",
                      ![t].stack_height =
                          stack_height_of(format_version, _hit_objects, ThreadKey(t)[1])]
    /\ UNCHANGED <<format_version, approach_rate, circle_size, parsed,
                   _hit_objects, _hit_objects_with_stacking, resolver_runs,
                   star_vars, curve_vars, instance_vars, timing_points, ret>>

\* beatmap.py 1621-1631, 1693-1703: the resolver moves the objects
ThreadApply(t) ==
    /\ threads[t].pc = "apply"
    /\ _hit_objects' = ResolvedInPlace(_hit_objects,
                           ApplyStacking(_hit_objects, threads[t].stack_height,
                                         ThreadKey(t)[2]))
    /\ resolver_runs' = CountRun(resolver_runs, ThreadKey(t))
    /\ threads' = [threads EXCEPT ![t].pc = "store"]
    /\ UNCHANGED <<format_version, approach_rate, circle_size, parsed,
                   _hit_objects_with_stacking, star_vars, curve_vars, instance_vars,
                   timing_points, ret>>

\* beatmap.py 1506-1522: the store into the cache, and the return
ThreadStore(t) ==
    /\ threads[t].pc = "store"
    /\ _hit_objects_with_stacking' =
           CacheStore(_hit_objects_with_stacking, ThreadKey(t),
                      [shared |-> TRUE, objs |-> <<>>])
    /\ threads' = [threads EXCEPT ![t].pc = "done"]
    /\ ret' = [op |-> "hit_objects",
               args |-> [thread |-> t, easy |-> threads[t].easy],
               raised |-> "",
               value |-> keep_classes(_hit_objects, {"Circle", "Slider", "Spinner"}, 1)]
    /\ UNCHANGED <<format_version, approach_rate, circle_size, parsed,
                   _hit_objects, resolver_runs, star_vars, curve_vars, instance_vars,
                   timing_points>>

\* The objects of the beatmaps of SpecThreads
ThreadKinds ==
    { [type |-> "Circle", position |-> <<1280000, 1280000>>,
       curve_end |-> <<0, 0>>, length |-> 0, ticks |-> 0],
      [type |-> "Slider", position |-> <<3000000, 1280000>>,
       curve_end |-> <<1280000, 1280000>>, length |-> 50000, ticks |-> 2] }

\* Both threads call with the same modifiers
InitThreads ==
    /\ InitObjects(Maps(ThreadKinds, MapGaps, MaxMapObjs), FormatVersions,
                   {<<5, 8>>, <<5, 4>>})
    /\ InitCurve({<<>>})
    /\ timing_points = <<>>
    /\ \E easy \in BOOLEAN :
           threads = [t \in Threads |->
                         [pc |-> "check", easy |-> easy, absent |-> FALSE,
                          stack_height |-> <<>>]]

NextThreads ==
    \E t \in Threads :
        \/ ThreadCheck(t)
        \/ ThreadHeights(t)
        \/ ThreadApply(t)
        \/ ThreadStore(t)

SpecThreads == InitThreads /\ [][NextThreads]_vars

\* C20: the test of the cache and the store are not one step.  When both
\* threads found the key absent, both ran the resolver on the shared
\* objects: once both are done the resolver has run twice for the key and
\* every object is away from its parsed position by the heights of both runs
\* times radius / 10, so twice its stack height when both runs computed it
\* from the parsed positions.
C20_CheckThenSetRace ==
    (\A t \in Threads : threads[t].pc = "done" /\ threads[t].absent)
        => /\ resolver_runs[ThreadKey(1)] = 2
           /\ \A k \in 1..Len(_hit_objects) :
                  LET moved == (threads[1].stack_height[k] + threads[2].stack_height[k])
                                   * stack_offset(ThreadKey(1)[2])
                  IN  _hit_objects[k].position
                          = << parsed[k][1] - moved, parsed[k][2] - moved >>

\* C20 witness: both threads found the key absent and are done, and an
\* object of positive stack height is further from its parsed position than
\* that height times radius / 10
C20_Witness ==
    /\ \A t \in Threads : threads[t].pc = "done" /\ threads[t].absent
    /\ \E k \in 1..Len(_hit_objects) :
           LET h == stack_height_of(format_version,
                        [j \in 1..Len(_hit_objects) |->
                            [_hit_objects[j] EXCEPT !.position = parsed[j]]],
                        ThreadKey(1)[1])[k]
           IN  /\ h > 0
               /\ parsed[k][1] - _hit_objects[k].position[1]
                      > h * stack_offset(ThreadKey(1)[2])

----------------------------------------------------------------------------
(* Beatmap._calculate_difficulty.  The strains are floats; the model keeps   *)
(* them in thousandths and rounds down after every multiplication.  The     *)
(* beatmaps of SpecDifficulty have all their objects at one position, where *)
(* the distance of every pair is 0: the speed weight is 0.95 and the aim    *)
(* weight 0 ** 0.99 = 0.                                                    *)

\* The most hit objects of a beatmap of SpecDifficulty
MaxDifficultyObjs == 3

\* beatmap.py 2152: _strain_step = timedelta(milliseconds=400), in microseconds
_strain_step == 400000

\* beatmap.py 2153: _decay_weight = 0.9, in 1/10000
_decay_weight == 9000

\* beatmap.py 993: decay_base = 0.3, 0.15, as decay_base ** 0.1 in 1/10000
\* (0.3 ** 0.1 = 0.88657, 0.15 ** 0.1 = 0.82720)
decay_base(strain) == IF strain = "speed" THEN 8866 ELSE 8272

\* value * decay_base[strain] ** seconds, for a time of whole tenths of a
\* second given in microseconds (beatmap.py 1051-1055, 2171-2177)
RECURSIVE decay(_, _, _)
decay(value, strain, time) ==
    IF time < 100000 THEN value
    ELSE decay((value * decay_base(strain)) \div 10000, strain, time - 100000)

\* beatmap.py 1075-1102 for distance 0, in hundredths
spacing_weight_at_rest(strain) == IF strain = "speed" THEN 95 ELSE 0

\* beatmap.py 1035-1055: the strain of an object at the position of the
\* previous one, whose strain is previous_strain; in thousandths
strain_at_rest(self, previous, strain, previous_strain) ==
    LET result == IF self.type \in {"Circle", "Slider"}
                  THEN (spacing_weight_at_rest(strain) * weight_scaling(strain)) \div 10
                  ELSE 0
        time_elapsed == self.time - previous.time
    IN  decay(previous_strain, strain, time_elapsed)
            + (result * 1000) \div Max(time_elapsed, 50000)

\* beatmap.py 1027-1033: strains[strain] of the k-th difficulty hit object
RECURSIVE strains(_, _, _)
strains(objects, strain, k) ==
    IF k = 1 THEN 0
    ELSE strain_at_rest(objects[k], objects[k - 1], strain,
                        strains(objects, strain, k - 1))

\* beatmap.py 2365-2376: the difficulty hit objects of _calculate_stars, by
\* what _calculate_difficulty reads of them
difficulty_hit_objects(objects, strain) ==
    [k \in 1..Len(objects) |->
        [time |-> objects[k].time, strain |-> strains(objects, strain, k)]]

\* beatmap.py 2165-2179: the while loop before object k; previous is the
\* index of the object before it, 0 for None
RECURSIVE close_intervals(_, _, _, _, _)
close_intervals(dhos, strain, k, previous, st) ==
    IF dhos[k].time > st.interval_end
    THEN close_intervals(dhos, strain, k, previous,
             [highest_strains |-> Append(st.highest_strains, st.max_strain),
              max_strain |-> IF previous = 0 THEN 0
                             ELSE decay(dhos[previous].strain, strain,
                                        st.interval_end - dhos[previous].time),
              interval_end |-> st.interval_end + _strain_step])
    ELSE st

\* beatmap.py 2164-2182: the loop over the difficulty hit objects
RECURSIVE strain_windows(_, _, _, _)
strain_windows(dhos, strain, k, st) ==
    IF k > Len(dhos) THEN st
    ELSE LET closed == close_intervals(dhos, strain, k, k - 1, st)
         IN  strain_windows(dhos, strain, k + 1,
                 [closed EXCEPT !.max_strain = Max(@, dhos[k].strain)])

\* sorted(highest_strains, reverse=True)
RECURSIVE sorted_reverse(_)
sorted_reverse(s) ==
    IF s = <<>> THEN <<>>
    ELSE LET i == CHOOSE i \in 1..Len(s) : \A j \in 1..Len(s) : s[j] <= s[i]
         IN  <<s[i]>> \o sorted_reverse([j \in 1..(Len(s) - 1) |->
                                            IF j < i THEN s[j] ELSE s[j + 1]])

\* beatmap.py 2184-2192: the sum of the sorted strains from index k on, the
\* first of them with weight (in 1/10000)
RECURSIVE weighted_sum(_, _, _)
weighted_sum(s, k, weight) ==
    IF k > Len(s) THEN 0
    ELSE (weight * s[k]) \div 10000
            + weighted_sum(s, k + 1, (weight * _decay_weight) \div 10000)

\* beatmap.py 2155-2192
_calculate_difficulty(strain, dhos) ==
    LET st == strain_windows(dhos, strain, 1,
                             [highest_strains |-> <<>>, max_strain |-> 0,
                              interval_end |-> _strain_step])
    IN  [highest_strains |-> st.highest_strains,
         difficulty |-> weighted_sum(sorted_reverse(st.highest_strains), 1, 10000)]

\* beatmap.py 2408-2415: _calculate_stars calls _calculate_difficulty with the
\* difficulty hit objects of the beatmap
CalculateDifficulty(strain) ==
    /\ Len(_hit_objects) >= 1
    /\ ret' = [op |-> "_calculate_difficulty", args |-> [strain |-> strain],
               raised |-> "",
               value |-> _calculate_difficulty(
                             strain, difficulty_hit_objects(_hit_objects, strain))]
    /\ UNCHANGED <<format_version, approach_rate, circle_size, parsed,
                   _hit_objects, _hit_objects_with_stacking, resolver_runs,
                   star_vars, curve_vars, instance_vars, timing_points, threads>>

\* The objects of the beatmaps of SpecDifficulty
DifficultyKinds ==
    { [type |-> "Circle", position |-> <<2560000, 1920000>>,
       curve_end |-> <<0, 0>>, length |-> 0, ticks |-> 0],
      [type |-> "Spinner", position |-> <<2560000, 1920000>>,
       curve_end |-> <<0, 0>>, length |-> 50000, ticks |-> 0] }

\* 100 ms stays in a window or enters the next, 500 ms enters the next or
\* the one after it, 900 ms leaves at least one window empty
DifficultyGaps == {100000, 500000, 900000}

InitDifficulty ==
    InitBeatmap(Maps(DifficultyKinds, DifficultyGaps, MaxDifficultyObjs), {14}, {<<5, 4>>})

NextDifficulty == \E strain \in {"speed", "aim"} : CalculateDifficulty(strain)

SpecDifficulty == InitDifficulty /\ [][NextDifficulty]_vars

\* The 400 ms window a time lies in: window k is (400 (k - 1), 400 k] ms
\* (beatmap.py 2165 compares with >), window 1 holding time 0 as well
window_of(time) == IF time = 0 THEN 1 ELSE (time + _strain_step - 1) \div _strain_step

\* C21: _calculate_difficulty reduces one value for every 400 ms window up to
\* and including the one that holds the last object, and the value of that
\* last window is the maximum strain observed in it: at least the strain of
\* every object of the window.
C21_LastWindowCounted ==
    LastWas("_calculate_difficulty")
        => LET dhos == difficulty_hit_objects(_hit_objects, ret.args.strain)
               last == window_of(dhos[Len(dhos)].time)
               highest_strains == ret.value.highest_strains
           IN  /\ Len(highest_strains) = last
               /\ \A k \in 1..Len(dhos) :
                      window_of(dhos[k].time) = last
                          => highest_strains[last] >= dhos[k].strain

----------------------------------------------------------------------------
(* The rhythm awkwardness of _calculate_stars.  Intervals are timedeltas,    *)
(* in microseconds; an offset is a float, kept in thousandths rounded down, *)
(* its square in millionths.                                                *)

\* The most hit objects of a beatmap of SpecRhythm
MaxRhythmObjs == 6

\* round(np.log2(num / den)) for num >= den: the r with
\* 2 ** (r - 0.5) <= num / den < 2 ** (r + 0.5), found on the squares
RECURSIVE round_log2(_, _, _)
round_log2(num, den, r) ==
    IF num * num < 2 * den * den THEN r ELSE round_log2(num, 2 * den, r + 1)

\* beatmap.py 2140-2150: offset ** 2 for the intervals a and b of a group;
\* the ratio is taken of whole milliseconds
squared_offset(a, b) ==
    LET num == Max(a, b) \div 1000
        den == Min(a, b) \div 1000
        closest_power_of_two == Pow(2, round_log2(num, den, 0))
        offset == (Abs(closest_power_of_two * den - num) * 1000)
                      \div (closest_power_of_two * den)
    IN  offset * offset

\* beatmap.py 2133-2150: what _handle_group yields, in order, each value with
\* the n and m (counted from 0) it was computed for
_handle_group(group) ==
    LET pairs == [n \in 0..(Len(group) - 1) |->
                    SelectSeq([m \in 1..(IF Len(group) = 0 THEN 0 ELSE Len(group) - 1) |->
                                   [n |-> n, m |-> m,
                                    value |-> squared_offset(group[n + 1], group[m + 1])]],
                              LAMBDA p : p.n # p.m)]
        flatten[n \in 0..Len(group)] ==
            IF n = Len(group) THEN <<>> ELSE pairs[n] \o flatten[n + 1]
    IN  flatten[0]

\* beatmap.py 2368-2376: the intervals between consecutive hit objects
intervals(objects) ==
    [k \in 1..(Len(objects) - 1) |-> objects[k + 1].time - objects[k].time]

\* beatmap.py 2383: break_threshhold = timedelta(milliseconds=1200)
break_threshhold == 1200000

\* beatmap.py 2388-2403: the groups handed to _handle_group, in order: one
\* at every break and at every fifth member, and the rest after the loop
RECURSIVE groups(_, _, _)
groups(ivs, k, group) ==
    IF k > Len(ivs) THEN << group >>
    ELSE LET is_break == ivs[k] >= break_threshhold
             grown == IF is_break THEN group ELSE Append(group, ivs[k])
         IN  IF is_break \/ Len(grown) = 5
             THEN << grown >> \o groups(ivs, k + 1, <<>>)
             ELSE groups(ivs, k + 1, grown)

RECURSIVE sum_values(_, _)
sum_values(terms, k) ==
    IF k > Len(terms) THEN 0 ELSE terms[k].value + sum_values(terms, k + 1)

\* beatmap.py 2378-2406: the groups with what _handle_group yields for
\* each, count_offsets, and rhythm_awkwardness in millionths
rhythm_awkwardness(objects) ==
    LET handled == [g \in 1..Len(groups(intervals(objects), 1, <<>>)) |->
                       [group |-> groups(intervals(objects), 1, <<>>)[g],
                        yielded |-> _handle_group(groups(intervals(objects), 1, <<>>)[g])]]
        total[g \in 0..Len(handled)] ==
            IF g = 0 THEN [count_offsets |-> 0, rhythm_awkwardness |-> 0]
            ELSE [count_offsets |-> total[g - 1].count_offsets + Len(handled[g].yielded),
                  rhythm_awkwardness |-> total[g - 1].rhythm_awkwardness
                                             + sum_values(handled[g].yielded, 1)]
        count_offsets == total[Len(handled)].count_offsets
    IN  [handled |-> handled,
         count_offsets |-> count_offsets,
         rhythm_awkwardness |->
             (total[Len(handled)].rhythm_awkwardness
                  \div (IF count_offsets = 0 THEN 1 ELSE count_offsets)) * 82]

\* The rhythm part of _calculate_stars on the beatmap
RhythmAwkwardness ==
    /\ Len(_hit_objects) >= 1
    /\ ret' = [op |-> "rhythm_awkwardness", args |-> <<>>, raised |-> "",
               value |-> rhythm_awkwardness(_hit_objects)]
    /\ UNCHANGED <<format_version, approach_rate, circle_size, parsed,
                   _hit_objects, _hit_objects_with_stacking, resolver_runs,
                   star_vars, curve_vars, instance_vars, timing_points, threads>>

\* The objects of the beatmaps of SpecRhythm
RhythmKinds ==
    { [type |-> "Circle", position |-> <<2560000, 1920000>>,
       curve_end |-> <<0, 0>>, length |-> 0, ticks |-> 0] }

\* 150 ms is 1.5 times 100 ms, 400 ms four times; 1300 ms is a break
RhythmGaps == {100000, 150000, 400000, 1300000}

InitRhythm ==
    InitBeatmap(Maps(RhythmKinds, RhythmGaps, MaxRhythmObjs), {14}, {<<5, 4>>})

NextRhythm == RhythmAwkwardness

SpecRhythm == InitRhythm /\ [][NextRhythm]_vars

\* C22: for every group of k intervals handed to _handle_group, there is
\* exactly one squared-offset term for every ordered pair (n, m) of distinct
\* member indices, k * (k - 1) terms, and the average is taken over all of
\* them.
C22_AllOrderedPairs ==
    LastWas("rhythm_awkwardness")
        => LET handled == ret.value.handled
           IN  /\ \A g \in 1..Len(handled) :
                      LET k == Len(handled[g].group)
                          yielded == handled[g].yielded
                      IN  /\ Len(yielded) = k * (k - 1)
                          /\ \A n \in 0..(k - 1), m \in 0..(k - 1) :
                                 n # m => Cardinality({ i \in 1..Len(yielded) :
                                              yielded[i].n = n /\ yielded[i].m = m }) = 1
               /\ ret.value.count_offsets
                      = sum_values([g \in 1..Len(handled) |->
                                       [value |-> Len(handled[g].group)
                                                      * (Len(handled[g].group) - 1)]], 1)

----------------------------------------------------------------------------
(* The resolvers anchor by anchor: SpecAnchors takes one step for every     *)
(* iteration of the outer loop of the resolver the format version selects,  *)
(* and a last one that applies the stack heights.  ret.value is the         *)
(* stack_height dict by the index of the object in the list the loop runs   *)
(* over (reversed for format_version >= 6), ret.args.i the anchor handled   *)
(* last, counted from 1.                                                    *)

\* The most hit objects of a beatmap of SpecAnchors
MaxAnchorObjs == 3

\* beatmap.py 1549: the list the outer loop enumerates
enumerated(version, objects) == IF version >= 6 THEN Reverse(objects) ELSE objects

\* beatmap.py 1553-1616: one iteration of the outer loop of _resolve_stacking
anchor_new(objs, threshold, i, h) ==
    IF h[i] # 0 \/ objs[i].type = "Spinner" THEN h
    ELSE IF objs[i].type = "Circle" THEN CircleChain(objs, threshold, i, i, i + 1, h)
    ELSE IF objs[i].type = "Slider" THEN SliderChain(objs, threshold, i, i + 1, h)
    ELSE h

\* beatmap.py 1659-1691: one iteration of the outer loop of
\* _resolve_stacking_old
anchor_old(objs, threshold, i, h) ==
    IF h[i] # 0 /\ objs[i].type # "Slider" THEN h
    ELSE OldChain(objs, threshold, i, i + 1, EndTime(objs[i]), 0, h)

\* A Catmull slider: its curve(1) raises NotImplementedError (curve.py
\* 202-203).  The model gives it the curve_end <<None, None>>, which is no
\* point of the playfield.
curve_raises(ob) == ob.type = "Slider" /\ ob.curve_end = <<None, None>>

\* beatmap.py 1557-1596: whether the chain of a Circle anchor evaluates
\* ob_n.curve(1) (1571) of a slider whose curve raises
RECURSIVE circle_chain_raises(_, _, _, _)
circle_chain_raises(objs, threshold, cur, n) ==
    IF n > Len(objs) THEN FALSE
    ELSE IF objs[n].type = "Spinner"
        THEN circle_chain_raises(objs, threshold, cur, n + 1)
    ELSE IF objs[cur].time - EndTime(objs[n]) > threshold THEN FALSE
    ELSE IF curve_raises(objs[n]) THEN TRUE
    ELSE IF objs[n].type = "Slider" /\ Near(objs[n].curve_end, objs[cur].position)
        THEN FALSE
    ELSE IF Near(objs[n].position, objs[cur].position)
        THEN circle_chain_raises(objs, threshold, n, n + 1)
    ELSE circle_chain_raises(objs, threshold, cur, n + 1)

\* beatmap.py 1601-1616: whether the chain of a Slider anchor evaluates
\* ob_n.curve(1) (1610) of a slider whose curve raises
RECURSIVE slider_chain_raises(_, _, _, _)
slider_chain_raises(objs, threshold, cur, n) ==
    IF n > Len(objs) THEN FALSE
    ELSE IF objs[n].type = "Spinner"
        THEN slider_chain_raises(objs, threshold, cur, n + 1)
    ELSE IF objs[cur].time - objs[n].time > threshold THEN FALSE
    ELSE IF curve_raises(objs[n]) THEN TRUE
    ELSE LET ob_n_end_position ==
                 IF objs[n].type = "Slider" THEN objs[n].curve_end
                 ELSE objs[n].position
         IN  IF Near(ob_n_end_position, objs[cur].position)
             THEN slider_chain_raises(objs, threshold, n, n + 1)
             ELSE slider_chain_raises(objs, threshold, cur, n + 1)

\* beatmap.py 1668-1691: whether the old chain of anchor i evaluates
\* ob_i.curve(1) (1682) of a slider whose curve raises
RECURSIVE old_chain_raises(_, _, _, _, _)
old_chain_raises(objs, threshold, i, j, st) ==
    IF j > Len(objs) THEN FALSE
    ELSE IF objs[j].time - threshold > st THEN FALSE
    ELSE IF Near(objs[j].position, objs[i].position)
        THEN old_chain_raises(objs, threshold, i, j + 1, EndTime(objs[j]))
    ELSE IF curve_raises(objs[i]) THEN TRUE
    ELSE IF objs[i].type = "Slider" /\ Near(objs[j].position, objs[i].curve_end)
        THEN old_chain_raises(objs, threshold, i, j + 1, EndTime(objs[j]))
    ELSE old_chain_raises(objs, threshold, i, j + 1, st)

\* Whether the iteration for anchor i raises, stack_height being h before it
anchor_raises(version, objs, threshold, i, h) ==
    IF version >= 6
    THEN /\ h[i] = 0
         /\ \/ objs[i].type = "Circle" /\ circle_chain_raises(objs, threshold, i, i + 1)
            \/ objs[i].type = "Slider" /\ slider_chain_raises(objs, threshold, i, i + 1)
    ELSE /\ h[i] = 0 \/ objs[i].type = "Slider"
         /\ old_chain_raises(objs, threshold, i, i + 1, EndTime(objs[i]))

\* Loops that move every object as soon as they give it a stack height
positions_in_loop_moved(objects, stack_height, cs) ==
    ApplyStacking(objects, stack_height, cs)

\* beatmap.py 1547-1616, 1656-1691: the loops write to the stack_height dict
\* alone; the objects are as they were when the loop is left, by its end or
\* by an exception
positions_in_loop(objects, stack_height, cs) == objects

\* stack_height before the next iteration: all 0 at first (beatmap.py 1547,
\* 1656)
stack_height_so_far ==
    IF ret.op = "anchor" THEN ret.value ELSE [k \in 1..Len(_hit_objects) |-> 0]

\* The index of the next iteration
next_anchor == IF ret.op = "anchor" THEN ret.args.i + 1 ELSE 1

\* One iteration of the outer loop of the resolver that
\* hit_objects(stacking=True) calls on a new beatmap; an exception of the
\* iteration leaves the loop and hit_objects
AnchorStep ==
    LET objs == enumerated(format_version, _hit_objects)
        threshold == stack_threshold(ar_of(FALSE, FALSE))
        raises == anchor_raises(format_version, objs, threshold, next_anchor,
                                stack_height_so_far)
        stack_height == IF raises THEN stack_height_so_far
                        ELSE IF format_version >= 6
                        THEN anchor_new(objs, threshold, next_anchor, stack_height_so_far)
                        ELSE anchor_old(objs, threshold, next_anchor, stack_height_so_far)
    IN  /\ ret.op \in {"init", "anchor"}
        /\ ret.raised = ""
        /\ next_anchor <= Len(objs)
        /\ _hit_objects' = positions_in_loop(_hit_objects,
                                             enumerated(format_version, stack_height),
                                             cs_of(FALSE, FALSE))
        /\ ret' = [op |-> "anchor", args |-> [i |-> next_anchor],
                   raised |-> IF raises THEN "NotImplementedError" ELSE "",
                   value |-> stack_height]
        /\ UNCHANGED <<format_version, approach_rate, circle_size, parsed,
                       _hit_objects_with_stacking, resolver_runs,
                       star_vars, curve_vars, instance_vars, timing_points, threads>>

\* beatmap.py 1618-1631, 1693-1703, 1506: the loop is over; the objects move
\* in place and hit_objects stores them under the stacking key
ApplyStep ==
    /\ ret.op \in {"init", "anchor"}
    /\ ret.raised = ""
    /\ next_anchor > Len(_hit_objects)
    /\ _hit_objects' = ApplyStacking(_hit_objects,
                                     enumerated(format_version, stack_height_so_far),
                                     cs_of(FALSE, FALSE))
    /\ _hit_objects_with_stacking' =
           CacheStore(_hit_objects_with_stacking, stacking_key(FALSE, FALSE),
                      [shared |-> TRUE, objs |-> <<>>])
    /\ ret' = [op |-> "apply", args |-> <<>>, raised |-> "",
               value |-> enumerated(format_version, stack_height_so_far)]
    /\ UNCHANGED <<format_version, approach_rate, circle_size, parsed,
                   resolver_runs, star_vars, curve_vars, instance_vars,
                   timing_points, threads>>

\* The objects of the beatmaps of SpecAnchors: circles at two positions, a
\* spinner where the first circle is, the sliders from one position to the
\* other, and a Catmull slider
AnchorKinds ==
    { [type |-> "Circle", position |-> <<1280000, 1280000>>,
       curve_end |-> <<0, 0>>, length |-> 0, ticks |-> 0],
      [type |-> "Circle", position |-> <<3000000, 1280000>>,
       curve_end |-> <<0, 0>>, length |-> 0, ticks |-> 0],
      [type |-> "Spinner", position |-> <<1280000, 1280000>>,
       curve_end |-> <<0, 0>>, length |-> 50000, ticks |-> 0],
      [type |-> "Slider", position |-> <<3000000, 1280000>>,
       curve_end |-> <<1280000, 1280000>>, length |-> 50000, ticks |-> 2],
      [type |-> "Slider", position |-> <<1280000, 1280000>>,
       curve_end |-> <<3000000, 1280000>>, length |-> 50000, ticks |-> 2],
      [type |-> "Slider", position |-> <<1280000, 1280000>>,
       curve_end |-> <<None, None>>, length |-> 50000, ticks |-> 2] }

InitAnchors ==
    InitBeatmap(Maps(AnchorKinds, ResolverGaps, MaxAnchorObjs), FormatVersions, {<<5, 4>>})

NextAnchors == AnchorStep \/ ApplyStep

SpecAnchors == InitAnchors /\ [][NextAnchors]_vars

\* beatmap.py 1557-1596: how the chain of a Circle anchor ends: the index of
\* the slider it breaks at (0 when it ends otherwise) and the indices ob_i
\* was bound to on the way, the anchor's first
RECURSIVE chain_end(_, _, _, _, _)
chain_end(objs, threshold, cur, n, chained) ==
    IF n > Len(objs) THEN [slider |-> 0, chained |-> chained]
    ELSE IF objs[n].type = "Spinner"
        THEN chain_end(objs, threshold, cur, n + 1, chained)
    ELSE IF objs[cur].time - EndTime(objs[n]) > threshold
        THEN [slider |-> 0, chained |-> chained]
    ELSE IF objs[n].type = "Slider" /\ Near(objs[n].curve_end, objs[cur].position)
        THEN [slider |-> n, chained |-> chained]
    ELSE IF Near(objs[n].position, objs[cur].position)
        THEN chain_end(objs, threshold, n, n + 1, chained \cup {n})
    ELSE chain_end(objs, threshold, cur, n + 1, chained)

\* C23: in the format_version >= 6 resolver, when the chain of a circle
\* anchor reaches a slider whose end is within 3 px of the current anchor,
\* every circle chained so far that lies within 3 px of that slider end ends
\* the step with a strictly negative stack height, and the slider keeps
\* stack height 0, to be handled as an anchor of its own.
C23_CirclesUnderSliderEnd ==
    [][(ret'.op = "anchor" /\ ret'.raised = "" /\ format_version >= 6)
          => LET objs == enumerated(format_version, _hit_objects)
                 i == ret'.args.i
                 end == chain_end(objs, stack_threshold(ar_of(FALSE, FALSE)),
                                  i, i + 1, {i})
             IN  (/\ objs[i].type = "Circle"
                  /\ stack_height_so_far[i] = 0
                  /\ end.slider # 0)
                     => /\ \A j \in end.chained :
                               (/\ objs[j].type = "Circle"
                                /\ Near(objs[end.slider].curve_end, objs[j].position))
                                   => ret'.value[j] < 0
                        /\ ret'.value[end.slider] = 0]_vars

\* The later elements an old chain matches, as C24 describes them, in
\* order: element j is matched when it is within 3 px of the anchor's
\* position (at_start) or, the anchor being a slider, within 3 px of the
\* slider's end and not of its start, and starts no later than
\* stack_threshold after the reference time: the end time of the element
\* matched last, the anchor's end time when there is none
matched_by(objs, threshold, i) ==
    LET found[j \in i..Len(objs)] ==
            IF j = i THEN <<>>
            ELSE LET before == found[j - 1]
                     reference == IF before = <<>> THEN EndTime(objs[i])
                                  ELSE EndTime(objs[before[Len(before)].j])
                     at_start == Near(objs[j].position, objs[i].position)
                     at_end == /\ ~at_start
                               /\ objs[i].type = "Slider"
                               /\ Near(objs[j].position, objs[i].curve_end)
                 IN  IF (at_start \/ at_end) /\ objs[j].time <= reference + threshold
                     THEN Append(before, [j |-> j, at_start |-> at_start])
                     ELSE before
    IN  found[Len(objs)]

\* C24: the format_version < 6 resolver takes the anchors in forward
\* chronological order; every matched later element at the anchor's position
\* adds 1 to the anchor's own stack height and keeps its own, and the n-th
\* matched element at the end but not the start of a slider anchor has its
\* stack height decreased by n; no other height changes.
C24_OldResolverChain ==
    [][(ret'.op = "anchor" /\ ret'.raised = "" /\ format_version < 6)
          => LET objs == enumerated(format_version, _hit_objects)
                 i == ret'.args.i
                 h == stack_height_so_far
                 matched == matched_by(objs, stack_threshold(ar_of(FALSE, FALSE)), i)
                 at_end == SelectSeq(matched, LAMBDA m : ~m.at_start)
                 at_start == SelectSeq(matched, LAMBDA m : m.at_start)
             IN  /\ objs = _hit_objects
                 /\ i = next_anchor
                 /\ (h[i] = 0 \/ objs[i].type = "Slider")
                        => /\ ret'.value[i] = h[i] + Len(at_start)
                           /\ \A n \in 1..Len(at_end) :
                                  ret'.value[at_end[n].j] = h[at_end[n].j] - n
                           /\ \A j \in 1..Len(objs) :
                                  (/\ j # i
                                   /\ \A n \in 1..Len(at_end) : at_end[n].j # j)
                                      => ret'.value[j] = h[j]]_vars

\* C24 witness: a slider anchor of the old resolver has lowered a first
\* element at its end by 1 and a second one by 2
C24_Witness ==
    /\ ret.op = "anchor" /\ format_version < 6
    /\ _hit_objects[ret.args.i].type = "Slider"
    /\ \E j, k \in 1..Len(ret.value) :
           /\ ret.args.i < j /\ j < k
           /\ ret.value[j] = -1 /\ ret.value[k] = -2

----------------------------------------------------------------------------
(* slider.utils.lazyval: the descriptor behind HitObject.hard_rock,          *)
(* half_time and double_time, Slider.tick_points and Beatmap.max_combo.     *)

\* The most hit objects of a beatmap of SpecLazy
MaxLazyObjs == 2

\* utils.py 5-24: the methods the class lazyval defines
lazyval == [__get__ |-> TRUE, __set__ |-> TRUE]

\* beatmap.py 275-316: the functions the lazyvals of a hit object wrap
_fget(name, instance) ==
    CASE name = "hard_rock" -> hard_rock_of(instance)
      [] name = "half_time" -> _time_modify(instance, 4)
      [] name = "double_time" -> _time_modify(instance, 2)

\* instance.name for a lazyval of the instance's class.  Python looks a
\* descriptor of the class that defines __set__ up before the instance's
\* own dict, and one that does not define it after; lazyval.__get__
\* (utils.py 15-21) calls the function and stores what it returns.
getattr(descriptor, instance, dict, name) ==
    IF descriptor.__set__ \/ name \notin DOMAIN dict
    THEN [value |-> _fget(name, instance),
          dict |-> SetItem(dict, name, _fget(name, instance)),
          fget_calls |-> 1]
    ELSE [value |-> dict[name], dict |-> dict, fget_calls |-> 0]

\* ob.hard_rock, ob.half_time or ob.double_time for the k-th hit object
GetAttr(k, name) ==
    LET r == getattr(lazyval, _hit_objects[k], instance_vars[k], name)
    IN  /\ instance_vars' = [instance_vars EXCEPT ![k] = r.dict]
        /\ ret' = [op |-> "getattr", args |-> [instance |-> k, name |-> name],
                   raised |-> "",
                   value |-> [value |-> r.value, fget_calls |-> r.fget_calls]]
        /\ UNCHANGED <<format_version, approach_rate, circle_size, parsed,
                       _hit_objects, _hit_objects_with_stacking, resolver_runs,
                       star_vars, curve_vars, timing_points, threads>>

LazyNames == {"hard_rock", "half_time", "double_time"}

InitLazy == InitBeatmap(Maps(MapKinds, MapGaps, MaxLazyObjs), {14}, {<<5, 4>>})

NextLazy == \E k \in 1..Len(_hit_objects), name \in LazyNames : GetAttr(k, name)

SpecLazy == InitLazy /\ [][NextLazy]_vars

\* C25: a lazyval calls its function at most once per instance: an access
\* after the first, when the instance holds a stored value, returns that
\* value without calling the function again.
C25_LazyvalComputesOnce ==
    [][ret'.op = "getattr"
          => LET k == ret'.args.instance
                 name == ret'.args.name
             IN  name \in DOMAIN instance_vars[k]
                     => /\ ret'.value.fget_calls = 0
                        /\ ret'.value.value = instance_vars[k][name]]_vars

----------------------------------------------------------------------------
(* Claims about the stacking cache and the modifiers, checked under Spec     *)

\* C26: a hit_objects(stacking=True) call is served the layout of its own
\* modifiers: with hard_rock the objects it returns are those of an entry
\* that holds hard_rock copies (y -> 384 - y), without hard_rock those of an
\* entry that holds the beatmap's own objects; no call that returns objects
\* gets an entry that a call of the other kind stored.
C26_LayoutOfOwnModifiers ==
    (LastWas("hit_objects") /\ ret.args.stacking /\ ret.value # <<>>)
        => LET key == stacking_key(ret.args.easy, ret.args.hard_rock)
           IN  /\ key \in DOMAIN _hit_objects_with_stacking
               /\ _hit_objects_with_stacking[key].shared = ~ret.args.hard_rock

\* C27: when the resolver raises while it computes the stack heights, no
\* object has been moved and nothing has been stored in the stacking cache:
\* the beatmap is as it was before the call.
C27_RaiseLeavesBeatmap ==
    (ret.op = "anchor" /\ ret.raised # "")
        => /\ Positions(_hit_objects) = parsed
           /\ _hit_objects_with_stacking = <<>>

\* C27 witness: the resolver raised after it had given an object a stack
\* height
C27_Witness ==
    /\ ret.op = "anchor" /\ ret.raised = "NotImplementedError"
    /\ \E k \in 1..Len(ret.value) : ret.value[k] # 0
    /\ Positions(_hit_objects) = parsed

----------------------------------------------------------------------------
(* The solve for every accuracy and miss count                               *)

\* C28: on a map of N >= 1 objects, for every accuracy in [0, 1] and every
\* miss count m of 0..N, the solve returns counts that are not negative, the
\* miss count m, and counts that add up to N; where the count of 100s would
\* exceed N - m (the fallback regime, which is where 50s are counted) the
\* count of 100s is 0.
C28_HitcountsPartition ==
    (LastWas("_round_hitcounts") /\ Len(_hit_objects) >= 1)
        => \A i \in 1..Len(ret.args.accuracy) :
              LET N == Len(_hit_objects)
                  m == ret.args.count_miss[i]
                  out == HitcountsAt(ret.value, i)
                  deficit == hit_deficit(N, clip_accuracy(N, ret.args.accuracy[i], m), m)
                  fallback == RoundHalfEven(-3 * deficit[1], 2 * deficit[2]) > N - m
              IN  m <= N
                    => /\ ~out.nan
                       /\ out.count_300 >= 0 /\ out.count_100 >= 0
                       /\ out.count_50 >= 0
                       /\ out.count_miss = m
                       /\ out.count_300 + out.count_100 + out.count_50 + m = N
                       /\ fallback => out.count_100 = 0
                       /\ out.count_50 > 0 => out.count_100 = 0

\* C28 witness: the solve ran with misses on an entry in the fallback regime
\* and on an entry outside it
C28_Witness ==
    /\ LastWas("_round_hitcounts") /\ Len(_hit_objects) >= 2
    /\ \E i, j \in 1..Len(ret.args.accuracy) :
          /\ ret.args.count_miss[i] >= 1 /\ ret.args.count_miss[i] < Len(_hit_objects)
          /\ ret.value.count_50[i] > 0 /\ ret.value.count_100[i] = 0
          /\ ret.args.count_miss[j] >= 1
          /\ ret.value.count_100[j] > 0 /\ ret.value.count_50[j] = 0
          /\ ret.value.count_300[j] + ret.value.count_100[j]
                 + ret.args.count_miss[j] = Len(_hit_objects)

\* C29: the resolver of format_version >= 6 never gives a Spinner a stack
\* height other than 0, so that no spinner is moved.
C29_SpinnerNeverStacked ==
    (ret.op \in {"anchor", "apply"} /\ format_version >= 6)
        => /\ \A k \in 1..Len(_hit_objects) :
                 enumerated(format_version, _hit_objects)[k].type = "Spinner"
                     => ret.value[k] = 0
           /\ \A k \in 1..Len(_hit_objects) :
                 _hit_objects[k].type = "Spinner"
                     => _hit_objects[k].position = parsed[k]

----------------------------------------------------------------------------
(* The times of the tick points                                              *)

\* C30: the offsets of a slider's tick_points do not decrease in list order,
\* and every one is after the slider's time and not after its end_time.
\* Stated for the sliders that span a part of a beat (num_beats > 0).
C30_TicksWithinSlider ==
    (LastWas("tick_points") /\ _hit_objects[ret.args.ix].num_beats > 0)
        => LET ob == _hit_objects[ret.args.ix]
               points == ret.value
           IN  /\ \A e \in 1..(Len(points) - 1) :
                     points[e].offset <= points[e + 1].offset
               /\ \A e \in 1..Len(points) :
                     /\ points[e].offset > ob.time
                     /\ points[e].offset <= ob.end_time

=============================================================================
